---- MODULE Spec2Model ----
(***************************************************************************)
(* A model of srctools/fgd.py: the tag engine (validate_tags, match_tags), *)
(* the entity view lookup (_EntityView), and the database operations       *)
(* apply_bases and collapse_bases of the FGD class.                        *)
(*                                                                         *)
(* Strings whose letter case the code converts (tags, classnames, names of *)
(* keyvalues) are sequences of one-character strings, so that upper() and  *)
(* casefold() are computed character by character.  A Python dict is a     *)
(* sequence of <<key, value>> pairs in insertion order.                    *)
(***************************************************************************)
EXTENDS Integers, Sequences, FiniteSets, TLC

VARIABLES
    ents,       \* the EntityDef objects alive: object id -> its fields
    entities,   \* FGD.entities: dict casefolded classname -> object id
    pc,         \* "idle", or "collapse" while collapse_bases is scanning
    lastop,     \* the operation that ran last
    status,     \* how it ended: "ok" or the error it raised
    calls,      \* number of database operations started so far
    todo,       \* collapse_bases: the set scanned by the current pass
    pending,    \* collapse_bases: members of todo the pass has yet to visit
    done,       \* collapse_bases: entities whose bases are collapsed
    deferred,   \* collapse_bases: entities put off to the next pass
    passes,     \* collapse_bases: scan passes finished in the current call
    marked,     \* history: the entities the current pass has added to done
    snap,       \* ents as it was when the current collapse_bases call began
    view,       \* the entity view lookup made, its outcome, and the value
                \* of calls when it was made
    mt,         \* a direct match_tags call: its arguments, then its result
    bin,        \* a serialise / unserialise run: the file and what was read
    prs,        \* a parse run: the token stream and what was built
    inc,        \* a parse_file run: the call stack and the parsed list
    sd,         \* a BinStrDict: its table and cur_index
    vt,         \* a direct validate_tags call
    ib,         \* an iter_bases call: the entities yielded
    hp          \* the objects of a collapse: records and lists by identity

vars == <<ents, entities, pc, lastop, status, calls, todo, pending, done,
          deferred, passes, marked, snap, view, mt, bin, prs, inc, sd, vt, ib,
          hp>>

\* The variables of the codec, the parser and the direct calls, which the
\* database operations leave alone.
aux == <<bin, prs, inc, sd, vt, ib, hp>>

(***************************************************************************)
(* Bounds of the model.                                                    *)
(***************************************************************************)
\* Largest candidate tag set handed to match_tags directly.
MaxTags == 3
\* Largest number of base references in a generated database.
MaxEdges == 3
\* Largest number of database operations (apply_bases, collapse_bases) run.
MaxCalls == 3

(***************************************************************************)
(* Strings.                                                                *)
(***************************************************************************)
Range(s) == {s[i] : i \in DOMAIN s}

\* str.upper() on one character of the alphabet used here.
UpperChar(c) ==
    CASE c = "a" -> "A"
      [] c = "b" -> "B"
      [] c = "c" -> "C"
      [] c = "k" -> "K"
      [] c = "l" -> "L"
      [] c = "n" -> "N"
      [] c = "y" -> "Y"
      [] c = "d" -> "D"
      [] c = "e" -> "E"
      [] c = "f" -> "F"
      [] c = "i" -> "I"
      [] c = "m" -> "M"
      [] c = "o" -> "O"
      [] c = "p" -> "P"
      [] c = "r" -> "R"
      [] c = "s" -> "S"
      [] c = "t" -> "T"
      [] c = "v" -> "V"
      [] OTHER -> c

\* str.casefold() on one character (lower case for ASCII).
LowerChar(c) ==
    CASE c = "A" -> "a"
      [] c = "B" -> "b"
      [] c = "C" -> "c"
      [] c = "K" -> "k"
      [] c = "L" -> "l"
      [] c = "N" -> "n"
      [] c = "Y" -> "y"
      [] c = "D" -> "d"
      [] c = "E" -> "e"
      [] c = "F" -> "f"
      [] c = "I" -> "i"
      [] c = "M" -> "m"
      [] c = "O" -> "o"
      [] c = "P" -> "p"
      [] c = "R" -> "r"
      [] c = "S" -> "s"
      [] c = "T" -> "t"
      [] c = "V" -> "v"
      [] OTHER -> c

upper(s) == [i \in 1..Len(s) |-> UpperChar(s[i])]
casefold(s) == [i \in 1..Len(s) |-> LowerChar(s[i])]

\* s[0:1] and s[1:] of Python.
Head1(s) == IF Len(s) = 0 THEN <<>> ELSE <<s[1]>>
Tail1(s) == IF Len(s) = 0 THEN <<>> ELSE SubSeq(s, 2, Len(s))

\* The wildcard a query may carry.
ALL_TAG == <<"<", "A", "L", "L", ">">>

(***************************************************************************)
(* match_tags.  The candidate tags are visited in the iteration order of   *)
(* the collection, given here as a sequence; matched is None, True or      *)
(* False as in the code.                                                   *)
(***************************************************************************)
RECURSIVE match_loop_wild(_, _, _, _)
\* Mutant: the wildcard short-cuts the whole test.
match_loop_wild(search, tags, i, matched) ==
    IF ALL_TAG \in search THEN TRUE
    ELSE IF i > Len(tags) THEN matched # "False"
    ELSE LET tag == upper(tags[i])
             start == Head1(tag)
         IN  IF start = <<"!">> \/ start = <<"-">>
             THEN IF Tail1(tag) \in search THEN FALSE
                  ELSE match_loop_wild(search, tags, i + 1, matched)
             ELSE IF start = <<"+">>
             THEN IF Tail1(tag) \notin search THEN FALSE
                  ELSE match_loop_wild(search, tags, i + 1, matched)
             ELSE match_loop_wild(search, tags, i + 1,
                     IF tag \in search THEN "True"
                     ELSE IF matched = "None" THEN "False" ELSE matched)

RECURSIVE match_loop(_, _, _, _)
match_loop(search, tags, i, matched) ==
    IF i > Len(tags) THEN matched # "False"
    ELSE LET tag == upper(tags[i])
             start == Head1(tag)
             has_all == ALL_TAG \in search
         IN  IF start = <<"!">> \/ start = <<"-">>
             THEN IF Tail1(tag) \in search THEN FALSE
                  ELSE match_loop(search, tags, i + 1, matched)
             ELSE IF start = <<"+">>
             THEN IF Tail1(tag) \notin search THEN FALSE
                  ELSE match_loop(search, tags, i + 1, matched)
             ELSE match_loop(search, tags, i + 1,
                     IF has_all \/ tag \in search THEN "True"
                     ELSE IF matched = "None" THEN "False" ELSE matched)

\* One iteration order of a set.
RECURSIVE SetToSeq(_)
SetToSeq(S) ==
    IF S = {} THEN <<>>
    ELSE LET x == CHOOSE y \in S : TRUE IN <<x>> \o SetToSeq(S \ {x})

\* match_tags(search, tags) on a sequence in iteration order.
match_tags_seq(search, tags) ==
    IF Len(tags) = 0 THEN TRUE ELSE match_loop(search, tags, 1, "None")

\* match_tags(search, tags) on a frozenset.
match_tags(search, tags) == match_tags_seq(search, SetToSeq(tags))

(***************************************************************************)
(* validate_tags: the stored tag set of a list of raw tags, or an error.   *)
(***************************************************************************)
RECURSIVE lstrip_sigils(_)
\* t.lstrip('!-+')
lstrip_sigils(t) ==
    IF Len(t) > 0 /\ t[1] \in {"!", "-", "+"} THEN lstrip_sigils(Tail1(t)) ELSE t

ANY_TAG == <<"<", "a", "n", "y", ">">>

validate_tags(tags) ==
    LET temp_set == {upper(lstrip_sigils(tags[i])) : i \in 1..Len(tags)}
    IN  IF Cardinality(temp_set) # Len(tags)
        THEN [ok |-> FALSE, error |-> "Duplicate tags!", tags |-> {}]
        ELSE IF ANY_TAG \in temp_set
        THEN [ok |-> FALSE, error |-> "<any> cannot be used as a tag!", tags |-> {}]
        ELSE [ok |-> TRUE, error |-> "",
              tags |-> {upper(tags[i]) : i \in 1..Len(tags)}]

(***************************************************************************)
(* Python dicts, in insertion order.                                       *)
(***************************************************************************)
Keys(d) == [i \in 1..Len(d) |-> d[i][1]]
HasKey(d, k) == \E i \in 1..Len(d) : d[i][1] = k
Get(d, k) == d[CHOOSE i \in 1..Len(d) : d[i][1] = k][2]
\* d[k] = v
Put(d, k, v) ==
    IF HasKey(d, k)
    THEN [i \in 1..Len(d) |-> IF d[i][1] = k THEN <<k, v>> ELSE d[i]]
    ELSE Append(d, <<k, v>>)
\* d.setdefault(k, {}) for a dict of dicts
SetDefault(d, k) == IF HasKey(d, k) THEN d ELSE Append(d, <<k, <<>>>>)

(***************************************************************************)
(* Leaf records.  A value list is None or a Python list.                   *)
(***************************************************************************)
NoneList == [none |-> TRUE, items |-> <<>>]
ListOf(items) == [none |-> FALSE, items |-> items]
\* Truth value of a val_list: None and [] are both false.
truthy(val_list) == ~val_list.none /\ Len(val_list.items) > 0

\* ValueTypes.has_list
has_list(type) == type \in {"choices", "flags"}

\* KeyValues.copy
kv_copy(kv) ==
    [name |-> kv.name, type |-> kv.type, disp_name |-> kv.disp_name,
     default |-> kv.default, desc |-> kv.desc,
     val_list |-> IF truthy(kv.val_list) THEN ListOf(kv.val_list.items)
                  ELSE NoneList,
     readonly |-> kv.readonly]

\* IODef(name, val_type, description).  The record carries the KeyValues
\* fields an IODef lacks at fixed values, so that all records have one shape.
IODef(name, type, desc) ==
    [name |-> name, type |-> type, disp_name |-> "", default |-> "",
     desc |-> desc, val_list |-> NoneList, readonly |-> FALSE]

\* IODef.copy
io_copy(io) == IODef(io.name, io.type, io.desc)

(***************************************************************************)
(* Entities and the database.  A base is a classname string or, once       *)
(* resolved, an EntityDef object.                                          *)
(***************************************************************************)
NoObj == "none"
StrBase(name) == [str |-> TRUE, name |-> name, obj |-> NoObj]
ObjBase(e) == [str |-> FALSE, name |-> <<>>, obj |-> e]

\* Mutant: the classname is looked up as written.
fgd_getitem_exact(db, classname) ==
    IF HasKey(db, classname)
    THEN [found |-> TRUE, obj |-> Get(db, classname)]
    ELSE [found |-> FALSE, obj |-> NoObj]

\* FGD.__getitem__: KeyError is found = FALSE.
fgd_getitem(db, classname) ==
    IF HasKey(db, casefold(classname))
    THEN [found |-> TRUE, obj |-> Get(db, casefold(classname))]
    ELSE [found |-> FALSE, obj |-> NoObj]

\* FGD.__iter__: the entity objects in dict order.
fgd_iter(db) == [i \in 1..Len(db) |-> db[i][2]]

(***************************************************************************)
(* apply_bases.                                                            *)
(***************************************************************************)
RECURSIVE resolve_bases(_, _, _, _)
\* The inner loop over one entity's bases: the new list, or the part of it
\* built when the unknown base was met.
resolve_bases(db, orig_bases, i, new_bases) ==
    IF i > Len(orig_bases) THEN [ok |-> TRUE, bases |-> new_bases]
    ELSE LET base == orig_bases[i] IN
         IF ~base.str
         THEN resolve_bases(db, orig_bases, i + 1, Append(new_bases, base))
         ELSE LET r == fgd_getitem(db, base.name) IN
              IF r.found
              THEN resolve_bases(db, orig_bases, i + 1,
                                 Append(new_bases, ObjBase(r.obj)))
              ELSE [ok |-> FALSE, bases |-> new_bases]

RECURSIVE apply_loop(_, _, _, _)
\* The outer loop over the entities; es is the object store so far.
apply_loop(es, db, order, i) ==
    IF i > Len(order) THEN [ok |-> TRUE, ents |-> es]
    ELSE LET e == order[i]
             r == resolve_bases(db, es[e].bases, 1, <<>>)
             es2 == [es EXCEPT ![e].bases = r.bases]
         IN  IF r.ok THEN apply_loop(es2, db, order, i + 1)
             ELSE [ok |-> FALSE, ents |-> es2]

apply_bases(es, db) == apply_loop(es, db, fgd_iter(db), 1)

(***************************************************************************)
(* collapse_bases: merging the bases of one ready entity.                  *)
(***************************************************************************)
RECURSIVE extend_missing(_, _, _)
\* for val in kv.val_list: if val not in targ_list: targ_list.append(val)
extend_missing(targ_list, vals, i) ==
    IF i > Len(vals) THEN targ_list
    ELSE IF vals[i] \in Range(targ_list)
         THEN extend_missing(targ_list, vals, i + 1)
         ELSE extend_missing(Append(targ_list, vals[i]), vals, i + 1)

RECURSIVE merge_kv_tags(_, _, _)
\* The loop over base_kv_map.items().  err: iterating a val_list that is
\* None raises TypeError, leaving what was merged so far.
merge_kv_tags(ent_kv_map, base_kv_map, j) ==
    IF j > Len(base_kv_map) THEN [map |-> ent_kv_map, err |-> FALSE]
    ELSE LET tag == base_kv_map[j][1]
             kv == base_kv_map[j][2]
         IN  IF ~HasKey(ent_kv_map, tag)
             THEN merge_kv_tags(Put(ent_kv_map, tag, kv_copy(kv)),
                                base_kv_map, j + 1)
             ELSE IF has_list(kv.type)
             THEN LET targ == Get(ent_kv_map, tag) IN
                  IF truthy(targ.val_list)
                  THEN IF kv.val_list.none
                       THEN [map |-> ent_kv_map, err |-> TRUE]
                       ELSE merge_kv_tags(
                              Put(ent_kv_map, tag,
                                  [targ EXCEPT !.val_list = ListOf(
                                      extend_missing(targ.val_list.items,
                                                     kv.val_list.items, 1))]),
                              base_kv_map, j + 1)
                  ELSE merge_kv_tags(ent_kv_map, base_kv_map, j + 1)
             ELSE merge_kv_tags(ent_kv_map, base_kv_map, j + 1)

RECURSIVE merge_keyvalues(_, _, _, _, _)
\* The loop over base.keyvalues.items(), with base_kv and keyvalue_names.
merge_keyvalues(ent_keyvalues, base_keyvalues, i, base_kv, keyvalue_names) ==
    IF i > Len(base_keyvalues)
    THEN [keyvalues |-> ent_keyvalues, base_kv |-> base_kv,
          names |-> keyvalue_names, err |-> FALSE]
    ELSE LET name == base_keyvalues[i][1]
             with_name == SetDefault(ent_keyvalues, name)
             r == merge_kv_tags(Get(with_name, name), base_keyvalues[i][2], 1)
             merged == Put(with_name, name, r.map)
         IN  IF r.err
             THEN [keyvalues |-> merged, base_kv |-> base_kv,
                   names |-> keyvalue_names, err |-> TRUE]
             ELSE IF name \notin keyvalue_names
             THEN merge_keyvalues(merged, base_keyvalues, i + 1,
                                  Append(base_kv, name),
                                  keyvalue_names \cup {name})
             ELSE merge_keyvalues(merged, base_keyvalues, i + 1,
                                  base_kv, keyvalue_names)

RECURSIVE merge_io_tags(_, _, _)
\* The loop over base_tags_map.items() of an input or output.
merge_io_tags(ent_tags_map, base_tags_map, j) ==
    IF j > Len(base_tags_map) THEN ent_tags_map
    ELSE IF ~HasKey(ent_tags_map, base_tags_map[j][1])
         THEN merge_io_tags(Put(ent_tags_map, base_tags_map[j][1],
                                io_copy(base_tags_map[j][2])),
                            base_tags_map, j + 1)
         ELSE merge_io_tags(ent_tags_map, base_tags_map, j + 1)

RECURSIVE merge_io(_, _, _)
\* The loop over base_map.items() of the inputs or the outputs.
merge_io(ent_map, base_map, i) ==
    IF i > Len(base_map) THEN ent_map
    ELSE LET name == base_map[i][1]
             with_name == SetDefault(ent_map, name)
         IN  merge_io(Put(with_name, name,
                          merge_io_tags(Get(with_name, name), base_map[i][2], 1)),
                      base_map, i + 1)

\* Mutant: the inherited names go after the entity's own.
new_kv_order_append(base_kv, kv_order) == kv_order \o base_kv

\* ent.kv_order = base_kv + ent.kv_order
new_kv_order(base_kv, kv_order) == base_kv \o kv_order

\* Mutant: the base list is left as it is.
cleared_bases_kept(bases) == bases

\* ent.bases.clear()
cleared_bases(bases) == <<>>

RECURSIVE merge_bases(_, _, _, _, _, _)
\* The loop over ent.bases of a ready entity ent (a record); es holds the
\* bases.  Gives the entity as it is when the loop ends or raises.
merge_bases(es, ent, bases, b, base_kv, keyvalue_names) ==
    IF b > Len(bases)
    THEN [ent |-> [ent EXCEPT !.kv_order = new_kv_order(base_kv, ent.kv_order),
                              !.bases = cleared_bases(ent.bases)],
          err |-> FALSE]
    ELSE LET base == es[bases[b].obj]
             r == merge_keyvalues(ent.keyvalues, base.keyvalues, 1,
                                  base_kv, keyvalue_names)
         IN  IF r.err
             THEN [ent |-> [ent EXCEPT !.keyvalues = r.keyvalues], err |-> TRUE]
             ELSE merge_bases(
                    es,
                    [ent EXCEPT !.keyvalues = r.keyvalues,
                                !.inputs = merge_io(ent.inputs, base.inputs, 1),
                                !.outputs = merge_io(ent.outputs, base.outputs, 1)],
                    bases, b + 1, r.base_kv, r.names)

\* Lines 1402-1436 for the entity e.
collapse_entity(es, e) ==
    merge_bases(es, es[e], es[e].bases, 1, <<>>, Range(es[e].kv_order))

(***************************************************************************)
(* _EntityView.__getitem__.                                                *)
(***************************************************************************)
\* Stands for "no record" in an outcome, shaped as a record.
NoValue ==
    [name |-> <<>>, type |-> "", disp_name |-> "", default |-> "", desc |-> "",
     val_list |-> NoneList, readonly |-> FALSE]

\* getattr(ent, self._attr)
attr_map(ent, attr) ==
    CASE attr = "keyvalues" -> ent.keyvalues
      [] attr = "inputs" -> ent.inputs
      [] attr = "outputs" -> ent.outputs

RECURSIVE sort_by_len_desc(_, _)
\* sorted(tag_map.items(), key=len of the tag set, reverse=True): a stable
\* sort, so items of one length keep their dict order.
sort_by_len_desc(items, len) ==
    IF len < 0 THEN <<>>
    ELSE SelectSeq(items, LAMBDA it : Cardinality(it[1]) = len)
         \o sort_by_len_desc(items, len - 1)

MaxTagLen(items) ==
    IF Len(items) = 0 THEN 0
    ELSE CHOOSE n \in {Cardinality(items[i][1]) : i \in 1..Len(items)} :
            \A i \in 1..Len(items) : Cardinality(items[i][1]) <= n

RECURSIVE first_match(_, _, _)
\* The inner for loop of __getitem__ over the sorted items.
first_match(search_tags, sorted, i) ==
    IF i > Len(sorted) THEN [kind |-> "miss", value |-> NoValue]
    ELSE IF match_tags(search_tags, sorted[i][1])
         THEN [kind |-> "found", value |-> sorted[i][2]]
         ELSE first_match(search_tags, sorted, i + 1)

\* The body of the loop over the maps, for one map.
lookup_in_map(ent_map, name, search_tags) ==
    IF ~HasKey(ent_map, name) THEN [kind |-> "miss", value |-> NoValue]
    ELSE LET tag_map == Get(ent_map, name)
         IN  first_match(search_tags,
                         sort_by_len_desc(tag_map, MaxTagLen(tag_map)), 1)

\* The deepest nesting of _maps generators the interpreter allows before it
\* raises RecursionError; a walk over an acyclic chain never gets there.
RecursionLimit(es) == Cardinality(DOMAIN es) + 1

RECURSIVE walk_maps(_, _, _, _, _, _)
RECURSIVE walk_bases(_, _, _, _, _, _, _)
\* The loop "for ent_map in self._maps()" entered at entity ref, depth
\* generators deep: _maps yields the entity's own map, then those of each
\* base in turn, and the loop returns at the first match.
walk_maps(es, base, attr, name, search_tags, depth) ==
    IF depth > RecursionLimit(es)
    THEN [kind |-> "RecursionError", value |-> NoValue]
    ELSE IF base.str
    THEN [kind |-> "AttributeError", value |-> NoValue]
    ELSE LET own == lookup_in_map(attr_map(es[base.obj], attr), name, search_tags)
         IN  IF own.kind = "found" THEN own
             ELSE walk_bases(es, es[base.obj].bases, 1, attr, name,
                             search_tags, depth)

walk_bases(es, bases, i, attr, name, search_tags, depth) ==
    IF i > Len(bases) THEN [kind |-> "miss", value |-> NoValue]
    ELSE LET r == walk_maps(es, bases[i], attr, name, search_tags, depth + 1)
         IN  IF r.kind = "miss"
             THEN walk_bases(es, bases, i + 1, attr, name, search_tags, depth)
             ELSE r

\* view[name] (bare) or view[name, tags] of the view of attr on entity e.
view_getitem(es, e, attr, name, bare, tags) ==
    LET search_tags == IF bare THEN {} ELSE {casefold(t) : t \in tags}
        r == walk_maps(es, ObjBase(e), attr, casefold(name), search_tags, 1)
    IN  IF r.kind = "miss" THEN [kind |-> "KeyError", value |-> NoValue] ELSE r

(***************************************************************************)
(* The operations as actions.                                              *)
(***************************************************************************)
\* FGD.apply_bases, whole.
ApplyBases ==
    /\ pc = "idle"
    /\ calls < MaxCalls
    /\ LET r == apply_bases(ents, entities) IN
         /\ ents' = r.ents
         /\ status' = IF r.ok THEN "ok" ELSE "UnknownBase"
    /\ lastop' = "apply_bases"
    /\ calls' = calls + 1
    /\ UNCHANGED aux
    /\ UNCHANGED <<entities, pc, todo, pending, done, deferred, passes, marked,
                   snap,
                   view, mt>>

\* FGD.collapse_bases up to the first pass: todo = set(self), done = set().
CollapseBegin ==
    /\ pc = "idle"
    /\ calls < MaxCalls
    /\ LET all == Range(fgd_iter(entities)) IN
         /\ todo' = all
         /\ pending' = all
         /\ pc' = IF all = {} THEN "idle" ELSE "collapse"
         /\ status' = IF all = {} THEN "ok" ELSE "running"
    /\ done' = {}
    /\ deferred' = {}
    /\ passes' = 0
    /\ marked' = {}
    /\ snap' = ents
    /\ lastop' = "collapse_bases"
    /\ calls' = calls + 1
    /\ UNCHANGED aux
    /\ UNCHANGED <<ents, entities, view, mt>>

\* How the call ends: the locals todo and deferred are gone.
CollapseReturn(how) ==
    /\ pc' = "idle"
    /\ status' = how
    /\ todo' = {}
    /\ pending' = {}
    /\ deferred' = {}

\* One iteration of "for ent in todo": a set is iterated in no fixed order.
CollapseVisit ==
    /\ pc = "collapse"
    /\ \E e \in pending :
         LET bases == ents[e].bases
             not_done == {bases[i].obj : i \in 1..Len(bases)} \ done
         IN  IF Len(bases) = 0
             THEN /\ done' = done \cup {e}
                  /\ pending' = pending \ {e}
                  /\ UNCHANGED <<ents, pc, status, todo, deferred>>
             ELSE IF \E i \in 1..Len(bases) : bases[i].str
             THEN /\ CollapseReturn("Unevaluated")
                  /\ UNCHANGED <<ents, done>>
             ELSE IF not_done # {}
             THEN /\ deferred' = deferred \cup not_done \cup {e}
                  /\ pending' = pending \ {e}
                  /\ UNCHANGED <<ents, pc, status, todo, done>>
             ELSE LET r == collapse_entity(ents, e) IN
                  /\ ents' = [ents EXCEPT ![e] = r.ent]
                  /\ IF r.err
                     THEN /\ CollapseReturn("TypeError")
                          /\ UNCHANGED done
                     ELSE /\ done' = done \cup {e}
                          /\ pending' = pending \ {e}
                          /\ UNCHANGED <<pc, status, todo, deferred>>
    /\ marked' = marked \cup (done' \ done)
    /\ UNCHANGED aux
    /\ UNCHANGED <<entities, lastop, calls, passes, snap, view, mt>>

\* The end of a pass: the loop test, then "todo = deferred" and "while todo".
CollapsePassEnd ==
    /\ pc = "collapse"
    /\ pending = {}
    /\ passes' = passes + 1
    /\ marked' = {}
    /\ IF todo = deferred
       THEN CollapseReturn("Loop")
       ELSE IF deferred = {}
       THEN CollapseReturn("ok")
       ELSE /\ todo' = deferred
            /\ pending' = deferred
            /\ deferred' = {}
            /\ UNCHANGED <<pc, status>>
    /\ UNCHANGED aux
    /\ UNCHANGED <<ents, entities, lastop, calls, done, snap, view, mt>>

(***************************************************************************)
(* Databases the runs start from: what parse_file leaves (bases still      *)
(* strings when parsed with eval_bases=False, objects otherwise).          *)
(***************************************************************************)
KV(name, type, disp_name, default, val_list) ==
    [name |-> name, type |-> type, disp_name |-> disp_name,
     default |-> default, desc |-> "", val_list |-> val_list,
     readonly |-> FALSE]

\* An entity as parse leaves it.  The type, the helpers and the description
\* are those of a point entity without helpers unless set otherwise.
EntityDef(classname, bases, keyvalues, inputs, outputs, kv_order) ==
    [type |-> "pointclass", classname |-> classname, bases |-> bases,
     keyvalues |-> keyvalues, inputs |-> inputs, outputs |-> outputs,
     kv_order |-> kv_order, helpers |-> <<>>, desc |-> <<>>]

\* Names of keyvalues, inputs and outputs, as keys (casefolded).
kA == <<"k", "a">>
kB == <<"k", "b">>
kC == <<"k", "c">>
kK == <<"k", "k">>
\* Tags as stored by validate_tags.
tA == <<"A">>
tB == <<"B">>

\* Spawnflag entries (value, name, default, tags).
Flag1 == [val |-> 1, name |-> "One", default |-> TRUE, tags |-> {}]
Flag2 == [val |-> 2, name |-> "Two", default |-> FALSE, tags |-> {}]
Flag4 == [val |-> 4, name |-> "Four", default |-> TRUE, tags |-> {}]

\* The entity bodies used: who is the owning entity, so that the records of
\* different entities differ.
Body(kind, who) ==
    CASE kind = "none" ->
           [keyvalues |-> <<>>, inputs |-> <<>>, outputs |-> <<>>,
            kv_order |-> <<>>]
      [] kind = "plain" ->
           [keyvalues |-> << <<kA, << <<{}, KV(<<"K", "a">>, "string", who, "1", NoneList)>> >> >> >>,
            inputs |-> << <<kA, << <<{}, IODef(<<"K", "a">>, "void", who)>> >> >> >>,
            outputs |-> <<>>,
            kv_order |-> <<kA>>]
      [] kind = "two" ->
           [keyvalues |-> << <<kB, << <<{}, KV(kB, "integer", who, "2", NoneList)>> >> >>,
                             <<kA, << <<{tA}, KV(kA, "string", who, "3", NoneList)>> >> >> >>,
            inputs |-> <<>>,
            outputs |-> << <<kB, << <<{}, IODef(kB, "string", who)>> >> >> >>,
            kv_order |-> <<kB, kA>>]
      [] kind = "unser" ->
           [keyvalues |-> << <<kC, << <<{}, KV(kC, "string", who, "4", NoneList)>> >> >>,
                             <<kB, << <<{}, KV(kB, "string", who, "5", NoneList)>> >> >> >>,
            inputs |-> <<>>,
            outputs |-> <<>>,
            kv_order |-> <<>>]
      [] kind = "flags0" ->
           [keyvalues |-> << <<kK, << <<{}, KV(kK, "flags", who, "", ListOf(<<>>))>> >> >> >>,
            inputs |-> <<>>, outputs |-> <<>>,
            kv_order |-> <<kK>>]
      [] kind = "flags1" ->
           [keyvalues |-> << <<kK, << <<{}, KV(kK, "flags", who, "", ListOf(<<Flag1>>))>> >> >> >>,
            inputs |-> <<>>, outputs |-> <<>>,
            kv_order |-> <<kK>>]
      [] kind = "flags2" ->
           [keyvalues |-> << <<kC, << <<{}, KV(kC, "string", who, "6", NoneList)>> >> >>,
                             <<kK, << <<{}, KV(kK, "flags", who, "", ListOf(<<Flag2, Flag1, Flag4>>))>> >> >> >>,
            inputs |-> <<>>, outputs |-> <<>>,
            kv_order |-> <<kC, kK>>]

MakeEnt(classname, bases, kind, who) ==
    LET b == Body(kind, who) IN
    EntityDef(classname, bases, b.keyvalues, b.inputs, b.outputs, b.kv_order)

\* The classnames of the objects, as written in the file.
ClassnameOf(e) ==
    CASE e = "e1" -> <<"A">>
      [] e = "e2" -> <<"b">>
      [] e = "e3" -> <<"C">>
      [] e = "e4" -> <<"K">>
      [] e = "e5" -> <<"l">>

\* FGD.entities after parsing the objects of order, in that order.
Registered(order) ==
    [i \in 1..Len(order) |-> <<casefold(ClassnameOf(order[i])), order[i]>>]

\* No match_tags call is made.
NoCall == mt = [at |-> "none", search |-> {}, tags |-> <<>>, result |-> TRUE]

\* What the variables of the collapse and the view start as.
Quiet ==
    /\ pc = "idle"
    /\ lastop = "none"
    /\ status = "none"
    /\ calls = 0
    /\ todo = {}
    /\ pending = {}
    /\ done = {}
    /\ deferred = {}
    /\ passes = 0
    /\ marked = {}
    /\ snap = ents
    /\ view = [called |-> FALSE, calls |-> 0, ent |-> NoObj, attr |-> "",
               name |-> <<>>, bare |-> TRUE, tags |-> {}, kind |-> "",
               value |-> NoValue]

\* No codec run, no parse, no parse_file, no string dictionary, no direct
\* validate_tags call, no iter_bases call.
NoBin == bin = [at |-> "none"]
NoPrs == prs = [at |-> "none"]
NoInc == inc = [at |-> "none"]
NoSd == sd = [at |-> "none"]
NoVt == vt = [at |-> "none"]
NoIb == ib = [at |-> "none"]
NoHp == hp = [at |-> "none"]
NoAux == NoBin /\ NoPrs /\ NoInc /\ NoSd /\ NoVt /\ NoIb /\ NoHp

\* Base classnames as written in base(...): in another letter case than the
\* classname they mean, and one that names no entity.
BaseNames == {<<"a">>, <<"B">>, <<"c">>, <<"y">>}

\* The lists of at most n different names.
NameLists(n) ==
    {s \in UNION {[1..k -> BaseNames] : k \in 0..n} :
        \A i, j \in 1..Len(s) : s[i] = s[j] => i = j}

\* Any base graph with at most MaxEdges references over three entities,
\* parsed with eval_bases=False.
InitGraphs ==
    \E bl \in [{"e1", "e2", "e3"} -> NameLists(MaxEdges)] :
        /\ Len(bl["e1"]) + Len(bl["e2"]) + Len(bl["e3"]) <= MaxEdges
        /\ ents = [e \in {"e1", "e2", "e3"} |->
                     MakeEnt(ClassnameOf(e),
                             [i \in 1..Len(bl[e]) |-> StrBase(bl[e][i])],
                             IF e = "e1" THEN "plain"
                             ELSE IF e = "e2" THEN "two" ELSE "unser",
                             e)]
        /\ entities = Registered(<<"e1", "e2", "e3">>)

\* Three shapes of inheritance with every choice of bodies, the bases
\* parsed before the entities that name them.
InitBodies ==
    \E shape \in {"two", "owt", "chain"} :
    \E k1 \in {"plain", "flags1", "flags0", "unser"} :
    \E k2 \in {"plain", "two", "flags2", "flags0"} :
    \E k3 \in {"two", "flags2", "flags0", "unser"} :
        /\ ents = [e \in {"e1", "e2", "e3"} |->
                     MakeEnt(ClassnameOf(e),
                        CASE e = "e1" /\ shape = "two" -> <<ObjBase("e2"), ObjBase("e3")>>
                          [] e = "e1" /\ shape = "owt" -> <<ObjBase("e3"), ObjBase("e2")>>
                          [] e = "e1" /\ shape = "chain" -> <<ObjBase("e2")>>
                          [] e = "e2" /\ shape = "chain" -> <<ObjBase("e3")>>
                          [] OTHER -> <<>>,
                        IF e = "e1" THEN k1 ELSE IF e = "e2" THEN k2 ELSE k3,
                        e)]
        /\ entities = Registered(<<"e3", "e2", "e1">>)

\* A base class overwritten by a later entity of the same classname: e3 was
\* parsed first, e1 took it as its base, then e2 replaced it in the dict.
InitShadow ==
    \E k3 \in {"two", "unser"} :
    \E more \in {<<>>, <<StrBase(<<"B">>)>>, <<StrBase(<<"y">>)>>} :
        /\ ents = [e \in {"e1", "e2", "e3"} |->
                     MakeEnt(IF e = "e3" THEN <<"b">> ELSE ClassnameOf(e),
                             IF e = "e1" THEN <<ObjBase("e3")>> \o more ELSE <<>>,
                             IF e = "e1" THEN "plain"
                             ELSE IF e = "e2" THEN "two" ELSE k3,
                             e)]
        /\ entities = Registered(<<"e2", "e1">>)

\* Two entities that name each other beside a chain of three.
InitDeep ==
    \E k3 \in {"flags1", "plain"} :
        /\ ents = [e \in {"e1", "e2", "e3", "e4", "e5"} |->
                     MakeEnt(ClassnameOf(e),
                        CASE e = "e1" -> <<StrBase(<<"B">>)>>
                          [] e = "e2" -> <<StrBase(<<"a">>)>>
                          [] e = "e3" -> <<StrBase(<<"k">>)>>
                          [] e = "e4" -> <<StrBase(<<"L">>)>>
                          [] OTHER -> <<>>,
                        CASE e = "e3" -> k3
                          [] e = "e5" -> "flags0"
                          [] OTHER -> "plain",
                        e)]
        /\ entities = Registered(<<"e1", "e2", "e3", "e4", "e5">>)

Init ==
    (InitGraphs \/ InitBodies \/ InitShadow \/ InitDeep) /\ Quiet /\ NoCall /\ NoAux

Next == ApplyBases \/ CollapseBegin \/ CollapseVisit \/ CollapsePassEnd

Spec == Init /\ [][Next]_vars

(***************************************************************************)
(* Entity view lookups.                                                    *)
(***************************************************************************)
\* Bodies whose records come in tagged variants.
ViewBody(kind, who) ==
    CASE kind = "none" ->
           [keyvalues |-> <<>>, inputs |-> <<>>, outputs |-> <<>>,
            kv_order |-> <<>>]
      [] kind = "untagged" ->
           [keyvalues |-> << <<kA, << <<{}, KV(kA, "string", who, "u", NoneList)>> >> >> >>,
            inputs |-> << <<kA, << <<{}, IODef(kA, "void", who)>> >> >> >>,
            outputs |-> <<>>,
            kv_order |-> <<kA>>]
      [] kind = "tagA" ->
           [keyvalues |-> << <<kA, << <<{tA}, KV(<<"K", "a">>, "string", who, "A", NoneList)>> >> >> >>,
            inputs |-> <<>>,
            outputs |-> << <<kA, << <<{tB}, IODef(kA, "void", who)>> >> >> >>,
            kv_order |-> <<kA>>]
      [] kind = "mixed" ->
           [keyvalues |-> << <<kA, << <<{}, KV(kA, "string", who, "u", NoneList)>>,
                                      <<{tB}, KV(kA, "string", who, "B", NoneList)>>,
                                      <<{tA}, KV(kA, "string", who, "A", NoneList)>>,
                                      <<{tA, tB}, KV(kA, "string", who, "AB", NoneList)>> >> >> >>,
            inputs |-> << <<kA, << <<{tA}, IODef(kA, "void", who)>> >> >> >>,
            outputs |-> <<>>,
            kv_order |-> <<kA>>]
      [] kind = "sigil" ->
           [keyvalues |-> << <<kA, << <<{<<"+", "A">>}, KV(kA, "string", who, "+A", NoneList)>>,
                                      <<{<<"!", "A">>, tB}, KV(kA, "string", who, "!A B", NoneList)>> >> >> >>,
            inputs |-> <<>>,
            outputs |-> <<>>,
            kv_order |-> <<kA>>]

\* Shapes of inheritance, cycles among them, written as classnames.
ViewBases(shape, e) ==
    CASE shape = "two" /\ e = "e1" -> <<StrBase(<<"B">>), StrBase(<<"c">>)>>
      [] shape = "owt" /\ e = "e1" -> <<StrBase(<<"c">>), StrBase(<<"B">>)>>
      [] shape = "chain" /\ e = "e1" -> <<StrBase(<<"B">>)>>
      [] shape = "chain" /\ e = "e2" -> <<StrBase(<<"c">>)>>
      [] shape = "cycle" /\ e = "e1" -> <<StrBase(<<"B">>), StrBase(<<"c">>)>>
      [] shape = "cycle" /\ e = "e2" -> <<StrBase(<<"a">>)>>
      [] shape = "self" /\ e = "e3" -> <<StrBase(<<"c">>)>>
      [] shape = "self" /\ e = "e1" -> <<StrBase(<<"c">>)>>
      [] OTHER -> <<>>

InitView ==
    /\ \E shape \in {"two", "owt", "chain", "cycle", "self", "flat"} :
       \E k1 \in {"none", "tagA", "mixed", "sigil"} :
       \E k2 \in {"untagged", "tagA", "mixed"} :
       \E k3 \in {"none", "untagged", "mixed"} :
         /\ ents = [e \in {"e1", "e2", "e3"} |->
                      LET b == ViewBody(IF e = "e1" THEN k1
                                        ELSE IF e = "e2" THEN k2 ELSE k3, e)
                      IN  EntityDef(ClassnameOf(e), ViewBases(shape, e),
                                    b.keyvalues, b.inputs, b.outputs, b.kv_order)]
         /\ entities = Registered(<<"e1", "e2", "e3">>)
    /\ Quiet
    /\ NoCall
    /\ NoAux

\* The names and the query tag sets looked up.
LookupNames == {<<"K", "A">>, <<"y">>}
LookupTags == {{}, {tA}, {<<"a">>}, {<<"b">>}, {tA, tB}, {ALL_TAG}}

\* ent.kv[...], ent.inp[...] or ent.out[...], whole.  A lookup changes
\* nothing, so one lookup per run, from any state, shows them all.
Lookup ==
    /\ pc = "idle"
    /\ ~view.called
    /\ \E e \in DOMAIN ents :
       \E attr \in {"keyvalues", "inputs", "outputs"} :
       \E name \in LookupNames :
       \E bare \in BOOLEAN :
       \E tags \in IF bare THEN {{}} ELSE LookupTags :
         LET r == view_getitem(ents, e, attr, name, bare, tags) IN
         view' = [called |-> TRUE, calls |-> calls, ent |-> e, attr |-> attr,
                  name |-> name, bare |-> bare, tags |-> tags,
                  kind |-> r.kind, value |-> r.value]
    /\ UNCHANGED aux
    /\ UNCHANGED <<ents, entities, pc, lastop, status, calls, todo, pending,
                   done, deferred, passes, marked, snap, mt>>

NextView == ApplyBases \/ Lookup

SpecView == InitView /\ [][NextView]_vars

(***************************************************************************)
(* Direct calls of match_tags.                                             *)
(***************************************************************************)
\* Candidate tags, as validate_tags stores them.
TagPool ==
    {tA, tB, <<"!", "A">>, <<"-", "A">>, <<"!", "B">>, <<"+", "A">>,
     <<"+", "B">>}
\* Search tags, upper-cased as match_tags asks.
SearchPool == {tA, tB, ALL_TAG}

\* The iteration orders of the candidate sets of at most MaxTags tags.
TagOrders ==
    {s \in UNION {[1..k -> TagPool] : k \in 0..MaxTags} :
        \A i, j \in 1..Len(s) : s[i] = s[j] => i = j}

\* The arguments of the call are drawn at the start.
InitTags ==
    /\ ents = [e \in {"e1"} |-> MakeEnt(ClassnameOf(e), <<>>, "none", e)]
    /\ entities = Registered(<<"e1">>)
    /\ Quiet
    /\ NoAux
    /\ \E search \in SUBSET SearchPool :
       \E tags \in TagOrders :
         mt = [at |-> "call", search |-> search, tags |-> tags,
               result |-> TRUE]

\* match_tags(search, tags), whole.
MatchTags ==
    /\ mt.at = "call"
    /\ mt' = [mt EXCEPT !.at = "returned",
                        !.result = match_tags_seq(mt.search, mt.tags)]
    /\ UNCHANGED aux
    /\ UNCHANGED <<ents, entities, pc, lastop, status, calls, todo, pending,
                   done, deferred, passes, marked, snap, view>>

NextTags == MatchTags

SpecTags == InitTags /\ [][NextTags]_vars

(***************************************************************************)
(* Helpers of the properties.                                              *)
(***************************************************************************)
IsNeg(t) == Head1(t) \in {<<"!">>, <<"-">>}
IsPos(t) == Head1(t) = <<"+">>
IsPlain(t) == ~IsNeg(t) /\ ~IsPos(t)

\* The objects registered in the database.
DbEnts == {entities[i][2] : i \in 1..Len(entities)}

\* The resolved bases of e in the store es.
BaseObjs(es, e) ==
    {es[e].bases[i].obj : i \in {j \in 1..Len(es[e].bases) : ~es[e].bases[j].str}}

RECURSIVE Closure(_, _, _)
Closure(es, S, n) ==
    IF n = 0 THEN S
    ELSE Closure(es, S \cup UNION {BaseObjs(es, x) : x \in S}, n - 1)

\* The direct and indirect bases of e.
Reach(es, e) == Closure(es, BaseObjs(es, e), Cardinality(DOMAIN es))

AllResolved(es) ==
    \A e \in DOMAIN es : \A i \in 1..Len(es[e].bases) : ~es[e].bases[i].str

Acyclic(es) == \A e \in DOMAIN es : e \notin Reach(es, e)

\* Is there a record under (name, tag) in the dict of dicts m, and which.
Held(m, name, tag) == HasKey(m, name) /\ HasKey(Get(m, name), tag)
Rec(m, name, tag) == Get(Get(m, name), tag)

(***************************************************************************)
(* C1.  match_tags(Q, T) is true exactly when no negative tag of T has its *)
(* label in Q, every positive tag of T has its label in Q, and T has no    *)
(* plain tag or one of them is in Q or Q holds the wildcard; whatever the  *)
(* order in which the tags of T are visited.                               *)
(***************************************************************************)
C1_Rule(Q, T) ==
    /\ \A t \in T : IsNeg(t) => Tail1(t) \notin Q
    /\ \A t \in T : IsPos(t) => Tail1(t) \in Q
    /\ \/ ~\E t \in T : IsPlain(t)
       \/ \E t \in T : IsPlain(t) /\ t \in Q
       \/ ALL_TAG \in Q

C1_MatchTags ==
    mt.at = "returned" =>
        /\ mt.result <=> C1_Rule(mt.search, Range(mt.tags))
        /\ mt.tags = <<>> => mt.result

\* The wildcard is in the query, a plain tag is not, and a negative tag fails.
C1_Witness ==
    /\ mt.at = "returned"
    /\ ALL_TAG \in mt.search
    /\ \E t \in Range(mt.tags) : IsPlain(t) /\ t \notin mt.search
    /\ \E t \in Range(mt.tags) : IsNeg(t) /\ Tail1(t) \in mt.search
    /\ ~mt.result

(***************************************************************************)
(* Helpers of the view properties.                                         *)
(***************************************************************************)
RECURSIVE PreOrder(_, _)
RECURSIVE PreOrderOf(_, _, _)
\* The entities in depth-first pre-order from e: e, then each base in
\* declared order with its own bases.  For acyclic, resolved bases.
PreOrder(es, e) == <<e>> \o PreOrderOf(es, es[e].bases, 1)
PreOrderOf(es, bases, i) ==
    IF i > Len(bases) THEN <<>>
    ELSE PreOrder(es, bases[i].obj) \o PreOrderOf(es, bases, i + 1)

\* The (tag set, record) variants under name in the map m that a query
\* satisfies.
Satisfying(m, name, query) ==
    IF ~HasKey(m, name) THEN {}
    ELSE {it \in Range(Get(m, name)) : match_tags(query, it[1])}

\* A lookup was made, and no database operation has run since.
Looked == view.called /\ view.calls = calls

\* The chain of the entity looked up has resolved bases and no cycle.
ViewChainSound ==
    /\ Looked
    /\ \A x \in {view.ent} \cup Reach(ents, view.ent) :
         /\ \A i \in 1..Len(ents[x].bases) : ~ents[x].bases[i].str
         /\ x \notin Reach(ents, x)

(***************************************************************************)
(* C2.  A view lookup of (name, query) walks the maps in depth-first       *)
(* pre-order; the first map that holds the name and a variant whose tag    *)
(* set satisfies match_tags(query, tag set) decides: the lookup returns a  *)
(* satisfying variant of that map whose tag set is not smaller than that   *)
(* of any other satisfying variant there; maps that hold the name without  *)
(* a satisfying variant are passed over.                                   *)
(***************************************************************************)
C2_ViewLookup ==
    ViewChainSound =>
      LET order == PreOrder(ents, view.ent)
          name == casefold(view.name)
          sat(i) == Satisfying(attr_map(ents[order[i]], view.attr), name, view.tags)
          hits == {i \in 1..Len(order) : sat(i) # {}}
      IN  IF hits = {} THEN view.kind = "KeyError"
          ELSE LET first == CHOOSE i \in hits : \A j \in hits : i <= j IN
               /\ view.kind = "found"
               /\ \E it \in sat(first) :
                    /\ it[2] = view.value
                    /\ \A other \in sat(first) :
                         Cardinality(it[1]) >= Cardinality(other[1])

(***************************************************************************)
(* C3.  The query tags of a view lookup are case-insensitive: when the     *)
(* entity itself stores a record under the tag set {T}, T a plain tag, a   *)
(* lookup with the tags {t}, t equal to T up to letter case, returns that  *)
(* record, provided no other tagged variant of the name matches.           *)
(***************************************************************************)
C3_QueryCaseInsensitive ==
    (Looked /\ ~view.bare) =>
      LET m == attr_map(ents[view.ent], view.attr)
          name == casefold(view.name)
      IN  \A t \in view.tags :
            LET T == upper(t) IN
            ( /\ view.tags = {t}
              /\ IsPlain(T)
              /\ Held(m, name, {T})
              /\ \A it \in Range(Get(m, name)) :
                   (it[1] # {T} /\ it[1] # {}) => ~match_tags({T}, it[1]) )
            => (view.kind = "found" /\ view.value = Rec(m, name, {T}))

(***************************************************************************)
(* C4.  Once the bases are resolved, whatever the shape of the base graph, *)
(* a view lookup of a name that no entity of the chain defines ends with   *)
(* KeyError.                                                               *)
(***************************************************************************)
C4_MissIsKeyError ==
    ( /\ Looked
      /\ AllResolved(ents)
      /\ \A x \in {view.ent} \cup Reach(ents, view.ent) :
           ~HasKey(attr_map(ents[x], view.attr), casefold(view.name)) )
    => view.kind = "KeyError"

(***************************************************************************)
(* Helpers of the database properties.                                     *)
(***************************************************************************)
\* The step is a call of apply_bases.
ApplyStep == lastop' = "apply_bases" /\ calls' = calls + 1

\* The database entity registered under the classname, letter case apart.
Registrant(classname) ==
    entities[CHOOSE i \in 1..Len(entities) :
                entities[i][1] = casefold(classname)][2]
IsRegistered(classname) ==
    \E i \in 1..Len(entities) : entities[i][1] = casefold(classname)

\* The step collapses the entity e: its bases are merged in and cleared.
Processes(e) ==
    pc = "collapse" /\ ents[e].bases # <<>> /\ ents'[e].bases = <<>>

\* A collapse_bases call has ended.
Collapsed == lastop = "collapse_bases" /\ pc = "idle"

\* Position of the first occurrence of x in the sequence s.
FirstIndex(s, x) == CHOOSE i \in 1..Len(s) : s[i] = x /\ \A j \in 1..(i - 1) : s[j] # x

RECURSIVE BaseKeyNames(_, _, _)
\* The keyvalue names of the bases, base after base in declared order.
BaseKeyNames(es, bases, i) ==
    IF i > Len(bases) THEN <<>>
    ELSE Keys(es[bases[i].obj].keyvalues) \o BaseKeyNames(es, bases, i + 1)

(***************************************************************************)
(* C5.  apply_bases replaces every base held as a name by the database     *)
(* entity registered under that classname, letter case apart, keeping the  *)
(* order and the number of the bases and the bases already resolved; it    *)
(* raises the unknown-base error when a name is not registered; and run on *)
(* a database whose bases are all resolved it changes nothing.             *)
(***************************************************************************)
C5_ApplyBases ==
    [][ ApplyStep =>
          LET names_known ==
                \A e \in DbEnts : \A i \in 1..Len(ents[e].bases) :
                    ents[e].bases[i].str => IsRegistered(ents[e].bases[i].name)
          IN  /\ names_known =>
                   /\ status' = "ok"
                   /\ \A e \in DbEnts :
                        /\ Len(ents'[e].bases) = Len(ents[e].bases)
                        /\ \A i \in 1..Len(ents[e].bases) :
                             ents'[e].bases[i] =
                               IF ents[e].bases[i].str
                               THEN ObjBase(Registrant(ents[e].bases[i].name))
                               ELSE ents[e].bases[i]
              /\ ~names_known => status' = "UnknownBase"
              /\ (\A e \in DbEnts : \A i \in 1..Len(ents[e].bases) :
                     ~ents[e].bases[i].str) => ents' = ents
              /\ \A e \in DOMAIN ents :
                   /\ ents'[e] = [ents[e] EXCEPT !.bases = ents'[e].bases]
                   /\ e \notin DbEnts => ents'[e] = ents[e]
      ]_vars

\* A second run has ended well on a database in which a base written in
\* another letter case was resolved beside a base that was an object from
\* the start and is registered nowhere.
C5_Witness ==
    /\ lastop = "apply_bases"
    /\ status = "ok"
    /\ calls = 2
    /\ "e3" \notin DbEnts
    /\ ents["e1"].bases = <<ObjBase("e3"), ObjBase("e2")>>

(***************************************************************************)
(* C6.  collapse_bases raises the base-cycle error only when the base      *)
(* graph has a cycle: on resolved, acyclic bases it never ends with that   *)
(* error, in whatever order a pass visits the entities.                    *)
(***************************************************************************)
C6_LoopOnlyOnCycle ==
    (Collapsed /\ AllResolved(snap) /\ Acyclic(snap)) => status # "Loop"

(***************************************************************************)
(* C7.  When two database entities are each other's base, collapse_bases   *)
(* raises the cycle error and leaves the base lists of both as they were.  *)
(***************************************************************************)
C7_CycleRaises ==
    \A a, b \in DbEnts :
      ( /\ Collapsed
        /\ AllResolved(snap)
        /\ a # b
        /\ b \in BaseObjs(snap, a)
        /\ a \in BaseObjs(snap, b) )
      => /\ status = "Loop"
         /\ ents[a].bases = snap[a].bases
         /\ ents[b].bases = snap[b].bases

(***************************************************************************)
(* C8.  After a collapse_bases call that ended well, every database entity *)
(* and every entity reachable as a base has an empty base list; and a call *)
(* on such a database changes no entity and ends well.                     *)
(***************************************************************************)
C8_CollapseIdempotent ==
    /\ (Collapsed /\ status = "ok") =>
          \A e \in DbEnts \cup UNION {Reach(snap, x) : x \in DbEnts} :
             ents[e].bases = <<>>
    /\ (lastop = "collapse_bases"
        /\ \A e \in DbEnts \cup UNION {Reach(snap, x) : x \in DbEnts} :
             snap[e].bases = <<>>) =>
          /\ ents = snap
          /\ pc = "idle" => status = "ok"

\* The second of two calls has ended, on entities the first had merged.
C8_Witness ==
    /\ Collapsed
    /\ status = "ok"
    /\ calls = 2
    /\ snap["e1"].bases = <<>>
    /\ Len(snap["e1"].keyvalues) >= 2
    /\ "e3" \notin DbEnts
    /\ ents = snap

(***************************************************************************)
(* C9.  When collapse_bases merges the bases into an entity E: a record E  *)
(* already holds under a (name, tag set) keeps its name, type, display     *)
(* name and default; for a (name, tag set) that a base holds and E does    *)
(* not, E afterwards holds a record equal to that of the earliest declared *)
(* base holding it; for keyvalues, inputs and outputs alike.               *)
(***************************************************************************)
C9_MergeRule ==
    [][ \A e \in DOMAIN ents : Processes(e) =>
          \A attr \in {"keyvalues", "inputs", "outputs"} :
            LET mine == attr_map(ents[e], attr)
                after == attr_map(ents'[e], attr)
                bases == ents[e].bases
                of(i) == attr_map(ents[bases[i].obj], attr)
            IN  /\ \A n \in 1..Len(mine) : \A t \in 1..Len(mine[n][2]) :
                     LET name == mine[n][1]
                         tag == mine[n][2][t][1]
                         old == mine[n][2][t][2]
                     IN  /\ Held(after, name, tag)
                         /\ Rec(after, name, tag).name = old.name
                         /\ Rec(after, name, tag).type = old.type
                         /\ Rec(after, name, tag).disp_name = old.disp_name
                         /\ Rec(after, name, tag).default = old.default
                /\ \A i \in 1..Len(bases) :
                   \A n \in 1..Len(of(i)) : \A t \in 1..Len(of(i)[n][2]) :
                     LET name == of(i)[n][1]
                         tag == of(i)[n][2][t][1]
                     IN  ( /\ ~Held(mine, name, tag)
                           /\ \A j \in 1..(i - 1) : ~Held(of(j), name, tag) )
                         => /\ Held(after, name, tag)
                            /\ Rec(after, name, tag) = of(i)[n][2][t][2]
      ]_vars

(***************************************************************************)
(* C10.  When collapse_bases processes an entity E, E.kv_order becomes the *)
(* keyvalue names of its bases that were not in E.kv_order, each once, in  *)
(* the order of their first appearance going through the bases in declared *)
(* order, followed by the previous E.kv_order, and E.bases becomes empty;  *)
(* an entity defining one keyvalue whose single base defines another ends  *)
(* with the base's name first and its own second.                          *)
(***************************************************************************)
C10_KvOrder ==
    [][ \A e \in DOMAIN ents : Processes(e) =>
          LET old == ents[e].kv_order
              new == ents'[e].kv_order
              from_bases == BaseKeyNames(ents, ents[e].bases, 1)
              added == Len(new) - Len(old)
          IN  /\ added >= 0
              /\ SubSeq(new, added + 1, Len(new)) = old
              /\ {new[i] : i \in 1..added} = Range(from_bases) \ Range(old)
              /\ \A i, j \in 1..added :
                   i < j => FirstIndex(from_bases, new[i])
                              < FirstIndex(from_bases, new[j])
              /\ ents'[e].bases = <<>>
              /\ ( /\ Len(ents[e].bases) = 1
                   /\ Len(old) = 1
                   /\ Len(from_bases) = 1
                   /\ from_bases # old )
                 => new = from_bases \o old
      ]_vars

\* The entity e1 defined ka alone, its single base kk alone, and e1 has
\* been processed.
C10_Witness ==
    /\ lastop = "collapse_bases"
    /\ snap["e1"].kv_order = <<kA>>
    /\ snap["e1"].bases = <<ObjBase("e2")>>
    /\ Keys(ents["e2"].keyvalues) = <<kK>>
    /\ ents["e1"].kv_order = <<kK, kA>>
    /\ ents["e1"].bases = <<>>

(***************************************************************************)
(* The binary codec.  A file is the magic, the header, the string table    *)
(* and the entity data; the entity data is the sequence of the numbers     *)
(* packed into it, string references being indexes into the table.         *)
(***************************************************************************)
\* 1 << 16, the bound BinStrDict.__call__ tests a new index against.
DictLimit == 65536
\* The largest number the two-byte format '>H' packs.
U16Max == 65535
\* The largest number the one-byte format '>B' packs.
U8Max == 255
BIN_FORMAT_VERSION == 2

\* Mutant: cur_index is not advanced.
new_index_same(cur_index) ==
    [index |-> cur_index,
     cur_index |-> cur_index,
     err |-> IF cur_index > DictLimit THEN "ValueError"
             ELSE IF cur_index > U16Max THEN "struct.error"
             ELSE "none"]

\* BinStrDict.__call__ for a string that is not in the table: the index it
\* is stored under, the new cur_index, and how the call ends (the test
\* against 1 << 16, then the packing into two bytes).
new_index(cur_index) ==
    [index |-> cur_index,
     cur_index |-> cur_index + 1,
     err |-> IF cur_index > DictLimit THEN "ValueError"
             ELSE IF cur_index > U16Max THEN "struct.error"
             ELSE "none"]

\* VALUE_TYPE_ORDER (the value types the model uses lead the table) and
\* ENTITY_TYPE_ORDER.
VALUE_TYPE_ORDER ==
    <<"void", "choices", "flags", "string", "boolean", "integer", "float">>
ENTITY_TYPE_ORDER ==
    <<"baseclass", "pointclass", "solidclass", "keyframeclass", "moveclass",
      "filterclass", "npcclass">>
\* VALUE_TYPE_INDEX[type], ENTITY_TYPE_INDEX[type]
IndexIn(order, x) == (CHOOSE i \in 1..Len(order) : order[i] = x) - 1

\* A writer: the string table so far (a string's index is its position less
\* one), the numbers written, and the exception raised if any.
NewWriter == [d |-> <<>>, out |-> <<>>, err |-> "none"]
fail(w, err) == IF w.err # "none" THEN w ELSE [w EXCEPT !.err = err]

\* file.write(str_dict(string))
put_str(w, string) ==
    IF w.err # "none" THEN w
    ELSE IF \E i \in 1..Len(w.d) : w.d[i] = string
    THEN [w EXCEPT !.out = Append(@, IndexIn(w.d, string))]
    ELSE LET n == new_index(Len(w.d)) IN
         [d |-> Append(w.d, string),
          out |-> IF n.err = "none" THEN Append(w.out, n.index) ELSE w.out,
          err |-> n.err]

\* file.write(_fmt_8bit.pack(n)), file.write(_fmt_16bit.pack(n))
put_u8(w, n) ==
    IF w.err # "none" THEN w
    ELSE IF n > U8Max THEN fail(w, "struct.error")
    ELSE [w EXCEPT !.out = Append(@, n)]
put_u16(w, n) ==
    IF w.err # "none" THEN w
    ELSE IF n > U16Max THEN fail(w, "struct.error")
    ELSE [w EXCEPT !.out = Append(@, n)]

RECURSIVE ilog2(_)
\* int(math.log2(val)) for val >= 1
ilog2(val) == IF val < 2 THEN 0 ELSE 1 + ilog2(val \div 2)

RECURSIVE ser_flags(_, _, _)
\* "for val, name, default in self.val_list": an entry is unpacked into
\* exactly three names.
ser_flags(items, i, w) ==
    IF i > Len(items) \/ w.err # "none" THEN w
    ELSE IF DOMAIN items[i] # {"val", "name", "default"}
    THEN fail(w, "ValueError")
    ELSE IF items[i].val < 1 THEN fail(w, "ValueError")
    ELSE ser_flags(items, i + 1,
            put_str(put_u8(w, ilog2(items[i].val)
                               + (IF items[i].default THEN 128 ELSE 0)),
                    items[i].name))

RECURSIVE ser_choices(_, _, _)
\* "for val, name in self.val_list"
ser_choices(items, i, w) ==
    IF i > Len(items) \/ w.err # "none" THEN w
    ELSE IF DOMAIN items[i] # {"val", "name"} THEN fail(w, "ValueError")
    ELSE ser_choices(items, i + 1,
            put_str(put_str(w, items[i].val), items[i].name))

\* KeyValues.serialise
kv_serialise(kv, w) ==
    LET head == put_u8(put_str(put_str(w, kv.name), kv.disp_name),
                       IndexIn(VALUE_TYPE_ORDER, kv.type)
                         + (IF kv.readonly THEN 128 ELSE 0))
    IN  IF kv.type = "flags"
        THEN IF kv.val_list.none THEN fail(head, "TypeError")
             ELSE ser_flags(kv.val_list.items, 1,
                            put_u8(head, Len(kv.val_list.items)))
        ELSE LET dflt == put_str(head, kv.default) IN
             IF kv.type = "choices"
             THEN IF kv.val_list.none THEN fail(dflt, "TypeError")
                  ELSE ser_choices(kv.val_list.items, 1,
                                   put_u16(dflt, Len(kv.val_list.items)))
             ELSE dflt

\* IODef.serialise
io_serialise(io, w) ==
    put_u8(put_str(w, io.name), IndexIn(VALUE_TYPE_ORDER, io.type))

RECURSIVE put_tags(_, _, _)
put_tags(tags, i, w) ==
    IF i > Len(tags) THEN w ELSE put_tags(tags, i + 1, put_str(w, tags[i]))

\* BinStrDict.write_tags
write_tags(w, tags) ==
    put_tags(SetToSeq(tags), 1, put_u8(w, Cardinality(tags)))

RECURSIVE ser_variants(_, _, _, _)
\* "for tags, value in tag_map.items()" of EntityDef.serialise
ser_variants(tag_map, j, iskv, w) ==
    IF j > Len(tag_map) \/ w.err # "none" THEN w
    ELSE LET t == write_tags(w, tag_map[j][1])
         IN  ser_variants(tag_map, j + 1, iskv,
                IF iskv THEN kv_serialise(tag_map[j][2], t)
                ELSE io_serialise(tag_map[j][2], t))

RECURSIVE ser_map(_, _, _, _)
\* "for name, tag_map in obj_type.items()" of EntityDef.serialise
ser_map(obj_type, i, iskv, w) ==
    IF i > Len(obj_type) \/ w.err # "none" THEN w
    ELSE LET tag_map == obj_type[i][2] IN
         ser_map(obj_type, i + 1, iskv,
            IF Len(tag_map) = 0 THEN w
            ELSE IF Len(tag_map) = 1 /\ tag_map[1][1] = {}
            THEN LET z == put_u8(w, 0) IN
                 IF iskv THEN kv_serialise(tag_map[1][2], z)
                 ELSE io_serialise(tag_map[1][2], z)
            ELSE ser_variants(tag_map, 1, iskv, put_u8(w, Len(tag_map))))

RECURSIVE ser_bases(_, _, _, _)
\* "for base_ent in self.bases: file.write(str_dict(base_ent.classname))"
ser_bases(es, bases, i, w) ==
    IF i > Len(bases) \/ w.err # "none" THEN w
    ELSE IF bases[i].str THEN fail(w, "AttributeError")
    ELSE ser_bases(es, bases, i + 1, put_str(w, es[bases[i].obj].classname))

\* EntityDef.serialise
ent_serialise(es, ent, w) ==
    LET header ==
          put_u8(put_u8(put_u8(put_u8(put_u8(w,
            IndexIn(ENTITY_TYPE_ORDER, ent.type)),
            Len(ent.bases)), Len(ent.keyvalues)), Len(ent.inputs)),
            Len(ent.outputs))
        named == ser_bases(es, ent.bases, 1, put_str(header, ent.classname))
    IN  ser_map(ent.outputs, 1, FALSE,
          ser_map(ent.inputs, 1, FALSE,
            ser_map(ent.keyvalues, 1, TRUE, named)))

RECURSIVE rstrip_digits(_)
\* classname.rstrip('_0123456789')
rstrip_digits(s) ==
    IF Len(s) > 0 /\ s[Len(s)] \in {"_", "0", "1", "2", "3", "4", "5", "6",
                                     "7", "8", "9"}
    THEN rstrip_digits(SubSeq(s, 1, Len(s) - 1))
    ELSE s

\* "poss_name not in self": FGD defines __iter__ and no __contains__, so the
\* name is compared with the EntityDef objects the database yields, and an
\* object is never equal to a string.
name_in_fgd(db, poss_name) == FALSE

\* str(num), for the numbers the count gets to.
str_num(num) == <<<<"0", "1", "2", "3", "4", "5", "6", "7", "8", "9">>[num + 1]>>

RECURSIVE first_free(_, _, _)
\* "for num in itertools.count(1)": the first name found free.
first_free(db, base_name, num) ==
    IF name_in_fgd(db, base_name \o str_num(num))
    THEN first_free(db, base_name, num + 1)
    ELSE base_name \o str_num(num)

RECURSIVE fix_missing_bases(_, _, _, _)
\* FGD._fix_missing_bases(ent), from the i-th base of ent on.  The state is
\* the entities and the database, with the exception raised if any.
fix_missing_bases(st, ent, i, depth) ==
    IF st.err # "none" \/ i > Len(st.es[ent].bases) THEN st
    ELSE LET base == st.es[ent].bases[i] IN
         IF base.str THEN [st EXCEPT !.err = "AttributeError"]
         ELSE IF depth > RecursionLimit(st.es)
         THEN [st EXCEPT !.err = "RecursionError"]
         ELSE LET found == fgd_getitem(st.db, st.es[base.obj].classname) IN
              IF ~found.found THEN [st EXCEPT !.err = "KeyError"]
              ELSE IF found.obj = base.obj
              THEN fix_missing_bases(st, ent, i + 1, depth)
              ELSE LET base_name ==
                         casefold(rstrip_digits(st.es[base.obj].classname))
                           \o <<"_">>
                       poss_name == first_free(st.db, base_name, 1)
                       renamed ==
                         [st EXCEPT
                            !.es[base.obj].classname = poss_name,
                            !.db = Put(st.db, poss_name, base.obj)]
                   IN  fix_missing_bases(
                         fix_missing_bases(renamed, base.obj, 1, depth + 1),
                         ent, i + 1, depth)

RECURSIVE fix_all(_, _, _)
\* "for ent in list(self): self._fix_missing_bases(ent)"
fix_all(st, order, i) ==
    IF i > Len(order) \/ st.err # "none" THEN st
    ELSE fix_all(fix_missing_bases(st, order[i], 1, 1), order, i + 1)

RECURSIVE ser_entities(_, _, _, _)
\* "for ent in self.entities.values(): ent.serialise(ent_data, dictionary)"
ser_entities(es, order, i, w) ==
    IF i > Len(order) \/ w.err # "none" THEN w
    ELSE ser_entities(es, order, i + 1, ent_serialise(es, es[order[i]], w))

\* BinStrDict.serialise: the count, then each string behind its length.
dict_serialise(d) == [i \in 1..Len(d) |-> <<Len(d[i]), d[i]>>]

\* FGD.serialise: the database as the call leaves it, and the file written
\* or the exception raised.
fgd_serialise(es, db) ==
    LET written(fixed, w) ==
          LET err == IF fixed.err # "none" THEN fixed.err ELSE w.err
          IN  [es |-> fixed.es, db |-> fixed.db, err |-> err,
               file |-> IF err # "none" THEN <<>>
                        ELSE [magic |-> "FGD",
                              header |-> <<BIN_FORMAT_VERSION, 0, 0,
                                           Len(fixed.db)>>,
                              count |-> Len(w.d),
                              strings |-> dict_serialise(w.d),
                              data |-> w.out]]
        write(fixed) ==
          written(fixed,
                  ser_entities(fixed.es, fgd_iter(fixed.db), 1, NewWriter))
    IN  write(fix_all([es |-> es, db |-> db, err |-> "none"],
                      fgd_iter(db), 1))

\* The string the table holds at the index read at position p.
from_dict(F, p) == F.inv[F.data[p] + 1]

\* 1 << n
RECURSIVE shl1(_)
shl1(n) == IF n = 0 THEN 1 ELSE 2 * shl1(n - 1)

\* KeyValues.unserialise at position p: the record and the position behind
\* it.  readonly is the truth value of value_ind & 128.
kv_unserialise(F, p) ==
    LET value_ind == F.data[p + 2]
        type == VALUE_TYPE_ORDER[(value_ind % 128) + 1]
        count == IF type = "flags" THEN F.data[p + 3]
                 ELSE IF type = "choices" THEN F.data[p + 4] ELSE 0
        val_list ==
          IF type = "flags"
          THEN ListOf([i \in 1..count |->
                  [val |-> shl1(F.data[p + 2 + 2 * i] % 128),
                   name |-> from_dict(F, p + 3 + 2 * i),
                   default |-> F.data[p + 2 + 2 * i] >= 128]])
          ELSE IF type = "choices"
          THEN ListOf([i \in 1..count |->
                  [val |-> from_dict(F, p + 3 + 2 * i),
                   name |-> from_dict(F, p + 4 + 2 * i)]])
          ELSE NoneList
    IN  [obj |-> [name |-> from_dict(F, p),
                  type |-> type,
                  disp_name |-> from_dict(F, p + 1),
                  default |-> IF type = "flags" THEN <<>>
                              ELSE from_dict(F, p + 3),
                  desc |-> <<>>,
                  val_list |-> val_list,
                  readonly |-> value_ind >= 128],
         next |-> IF type = "flags" THEN p + 4 + 2 * count
                  ELSE IF type = "choices" THEN p + 5 + 2 * count
                  ELSE p + 4]

\* IODef.unserialise
io_unserialise(F, p) ==
    [obj |-> IODef(from_dict(F, p), VALUE_TYPE_ORDER[F.data[p + 1] + 1], <<>>),
     next |-> p + 2]

obj_unserialise(F, p, iskv) ==
    IF iskv THEN kv_unserialise(F, p) ELSE io_unserialise(F, p)

\* BinStrDict.read_tags
read_tags_bin(F, p) ==
    [tags |-> {from_dict(F, p + k) : k \in 1..F.data[p]},
     next |-> p + 1 + F.data[p]]

RECURSIVE read_variants(_, _, _, _, _)
\* "for _ in range(tag_count - 1)" of EntityDef.unserialise
read_variants(F, p, n, iskv, tag_map) ==
    IF n = 0 THEN [tag_map |-> tag_map, next |-> p]
    ELSE LET t == read_tags_bin(F, p)
             variant(o) == read_variants(F, o.next, n - 1, iskv,
                                         Put(tag_map, t.tags, o.obj))
         IN  variant(obj_unserialise(F, t.next, iskv))

RECURSIVE read_map(_, _, _, _, _)
\* "for _ in range(count)" of EntityDef.unserialise: the maps are keyed by
\* the name of the record read first.
read_map(F, p, count, iskv, val_map) ==
    IF count = 0 THEN [val_map |-> val_map, next |-> p]
    ELSE LET tag_count == F.data[p] IN
         IF tag_count = 0
         THEN LET untagged(o) ==
                    read_map(F, o.next, count - 1, iskv,
                             Put(val_map, o.obj.name, << <<{}, o.obj>> >>))
              IN  untagged(obj_unserialise(F, p + 1, iskv))
         ELSE LET t == read_tags_bin(F, p + 1)
                  more(o, rest) ==
                    read_map(F, rest.next, count - 1, iskv,
                             Put(val_map, o.obj.name, rest.tag_map))
                  first(o) ==
                    more(o, read_variants(F, o.next, tag_count - 1, iskv,
                                          << <<t.tags, o.obj>> >>))
              IN  first(obj_unserialise(F, t.next, iskv))

\* EntityDef.unserialise
ent_unserialise(F, p) ==
    LET base_count == F.data[p + 1]
        bases == [i \in 1..base_count |-> StrBase(from_dict(F, p + 5 + i))]
        built(kvs, inps, outs) ==
          [ent |-> [type |-> ENTITY_TYPE_ORDER[F.data[p] + 1],
                    classname |-> from_dict(F, p + 5),
                    bases |-> bases,
                    keyvalues |-> kvs.val_map,
                    inputs |-> inps.val_map,
                    outputs |-> outs.val_map,
                    kv_order |-> <<>>, helpers |-> <<>>, desc |-> <<>>],
           next |-> outs.next]
        read_outs(kvs, inps) ==
          built(kvs, inps, read_map(F, inps.next, F.data[p + 4], FALSE, <<>>))
        read_inps(kvs) ==
          read_outs(kvs, read_map(F, kvs.next, F.data[p + 3], FALSE, <<>>))
    IN  read_inps(read_map(F, p + 6 + base_count, F.data[p + 2], TRUE, <<>>))

\* The objects unserialise creates, in the order it creates them.
NewObj(i) == <<"u1", "u2", "u3", "u4", "u5", "u6">>[i]

RECURSIVE read_entities(_, _, _, _, _)
\* "for _ in range(ent_count)" of FGD.unserialise
read_entities(F, p, i, ent_count, st) ==
    IF i > ent_count THEN st
    ELSE LET add(r) ==
               read_entities(F, r.next, i + 1, ent_count,
                  [es |-> [o \in DOMAIN st.es \cup {NewObj(i)} |->
                             IF o = NewObj(i) THEN r.ent ELSE st.es[o]],
                   db |-> Put(st.db, casefold(r.ent.classname), NewObj(i))])
         IN  add(ent_unserialise(F, p))

\* BinStrDict.unserialise: each string is read by its length.
dict_unserialise(file) ==
    [i \in 1..file.count |-> SubSeq(file.strings[i][2], 1, file.strings[i][1])]

\* FGD.unserialise: the database read, or the exception raised.
fgd_unserialise(file) ==
    IF file.magic # "FGD" THEN [err |-> "ValueError", es |-> <<>>, db |-> <<>>]
    ELSE IF file.header[1] # BIN_FORMAT_VERSION
    THEN [err |-> "TypeError", es |-> <<>>, db |-> <<>>]
    ELSE LET applied(st, r) ==
               [err |-> IF r.ok THEN "none" ELSE "UnknownBase",
                es |-> r.ents, db |-> st.db]
             loaded(st) == applied(st, apply_bases(st.es, st.db))
             read(F) == loaded(read_entities(F, 1, 1, file.header[4],
                                             [es |-> <<>>, db |-> <<>>]))
         IN  read([data |-> file.data, inv |-> dict_unserialise(file)])

(***************************************************************************)
(* Runs of the codec: a database as parsing and apply_bases leave it is    *)
(* serialised, and the file is unserialised.                               *)
(***************************************************************************)
\* A keyvalue as EntityDef.parse builds it.
ParsedKV(name, type, disp_name, default, desc, val_list, readonly) ==
    [name |-> name, type |-> type, disp_name |-> disp_name,
     default |-> default, desc |-> desc, val_list |-> val_list,
     readonly |-> readonly]

\* Value list entries as EntityDef.parse builds them: a spawnflag is
\* (value, name, default, tags), a choice is (value, name, tags).
SpawnFlag(val, name, default, tags) ==
    [val |-> val, name |-> name, default |-> default, tags |-> tags]
Choice(val, name, tags) == [val |-> val, name |-> name, tags |-> tags]

\* The entity bodies the codec is run on.
CodecBody(kind, who) ==
    CASE kind = "none" ->
           [keyvalues |-> <<>>, inputs |-> <<>>, outputs |-> <<>>,
            kv_order |-> <<>>]
      [] kind = "plain" ->
           [keyvalues |-> << <<kA, << <<{}, ParsedKV(kA, "string", <<who>>,
                                   <<"1">>, <<"d">>, NoneList, FALSE)>> >> >>,
                             <<kB, << <<{}, ParsedKV(kB, "integer", <<who>>,
                                   <<>>, <<>>, NoneList, FALSE)>> >> >> >>,
            inputs |-> << <<kA, << <<{tA}, IODef(<<"K", "a">>, "void", <<"d">>)>> >> >> >>,
            outputs |-> <<>>,
            kv_order |-> <<kA, kB>>]
      [] kind = "tagged" ->
           [keyvalues |-> << <<kA, << <<{}, ParsedKV(kA, "string", <<who>>,
                                   <<"u">>, <<>>, NoneList, FALSE)>>,
                                      <<{tA, <<"!", "B">>}, ParsedKV(kA, "float", <<who>>,
                                   <<"2">>, <<>>, NoneList, FALSE)>> >> >> >>,
            inputs |-> <<>>,
            outputs |-> << <<kB, << <<{}, IODef(kB, "string", <<>>)>>,
                                    <<{tB}, IODef(kB, "integer", <<>>)>> >> >> >>,
            kv_order |-> <<kA>>]
      [] kind = "flags0" ->
           [keyvalues |-> << <<kK, << <<{}, ParsedKV(kK, "flags", kK, <<>>,
                                   <<>>, ListOf(<<>>), FALSE)>> >> >> >>,
            inputs |-> <<>>, outputs |-> <<>>,
            kv_order |-> <<kK>>]
      [] kind = "flags" ->
           [keyvalues |-> << <<kK, << <<{}, ParsedKV(kK, "flags", kK, <<>>, <<>>,
                                   ListOf(<<SpawnFlag(1, <<"O">>, TRUE, {}),
                                            SpawnFlag(4, <<"F">>, FALSE, {tA})>>),
                                   FALSE)>> >> >> >>,
            inputs |-> <<>>, outputs |-> <<>>,
            kv_order |-> <<kK>>]
      [] kind = "choices" ->
           [keyvalues |-> << <<kC, << <<{}, ParsedKV(kC, "choices", <<who>>,
                                   <<"0">>, <<>>,
                                   ListOf(<<Choice(<<"0">>, <<"N">>, {}),
                                            Choice(<<"x">>, <<"X">>, {})>>),
                                   FALSE)>> >> >> >>,
            inputs |-> <<>>, outputs |-> <<>>,
            kv_order |-> <<kC>>]

\* The entity types of the objects.
TypeOf(e) ==
    CASE e = "e1" -> "pointclass"
      [] e = "e2" -> "baseclass"
      [] OTHER -> "solidclass"

\* The shapes of inheritance: none, a chain, two bases, and a base class
\* that a later entity of the same classname replaced in the database.
CodecBases(shape, e) ==
    CASE shape = "chain" /\ e = "e1" -> <<ObjBase("e2")>>
      [] shape = "chain" /\ e = "e2" -> <<ObjBase("e3")>>
      [] shape = "two" /\ e = "e1" -> <<ObjBase("e3"), ObjBase("e2")>>
      [] shape = "shadow" /\ e = "e1" -> <<ObjBase("e3")>>
      [] OTHER -> <<>>

InitCodec ==
    /\ \E shape \in {"flat", "chain", "two", "shadow"} :
       \E k1 \in {"plain", "tagged", "flags", "choices"} :
       \E k2 \in {"none", "plain", "flags0", "choices"} :
       \E k3 \in {"none", "tagged", "flags0"} :
         /\ ents = [e \in {"e1", "e2", "e3"} |->
                      LET b == CodecBody(IF e = "e1" THEN k1
                                         ELSE IF e = "e2" THEN k2 ELSE k3, e)
                      IN  [EntityDef(IF e = "e3" /\ shape = "shadow"
                                     THEN <<"b">> ELSE ClassnameOf(e),
                                     CodecBases(shape, e), b.keyvalues,
                                     b.inputs, b.outputs, b.kv_order)
                             EXCEPT !.type = TypeOf(e), !.desc = <<"d">>]]
         /\ entities = IF shape = "shadow" THEN Registered(<<"e2", "e1">>)
                       ELSE Registered(<<"e3", "e2", "e1">>)
    /\ Quiet /\ NoCall /\ NoPrs /\ NoInc /\ NoSd /\ NoVt /\ NoIb /\ NoHp
    /\ bin = [at |-> "db", err |-> "none", file |-> <<>>, es |-> <<>>,
              db |-> <<>>]

\* fgd.serialise(file), whole.
Serialise ==
    /\ bin.at = "db"
    /\ \E r \in {fgd_serialise(ents, entities)} :
         /\ ents' = r.es
         /\ entities' = r.db
         /\ bin' = [bin EXCEPT !.at = IF r.err = "none" THEN "file" ELSE "error",
                               !.err = r.err, !.file = r.file]
    /\ UNCHANGED <<pc, lastop, status, calls, todo, pending, done, deferred,
                   passes, marked, snap, view, mt, prs, inc, sd, vt, ib, hp>>

\* FGD.unserialise(file), whole.
Unserialise ==
    /\ bin.at = "file"
    /\ \E r \in {fgd_unserialise(bin.file)} :
         bin' = [bin EXCEPT !.at = IF r.err = "none" THEN "loaded" ELSE "error",
                            !.err = r.err, !.es = r.es, !.db = r.db]
    /\ UNCHANGED <<ents, entities, pc, lastop, status, calls, todo, pending,
                   done, deferred, passes, marked, snap, view, mt, prs, inc, sd,
                   vt, ib, hp>>

NextCodec == Serialise \/ Unserialise

SpecCodec == InitCodec /\ [][NextCodec]_vars

\* What a map holds: for every variant its tag set and the name, type,
\* default and value list of its record.
RecordFacts(m) ==
    UNION {{<<m[n][2][t][1], m[n][2][t][2].name, m[n][2][t][2].type,
               m[n][2][t][2].default, m[n][2][t][2].val_list>> :
                t \in 1..Len(m[n][2])} : n \in 1..Len(m)}

\* The descriptions of the records of a map.
RecordDescs(m) ==
    UNION {{m[n][2][t][2].desc : t \in 1..Len(m[n][2])} : n \in 1..Len(m)}

\* The classnames of the bases of an entity, all of them resolved.
BaseClassnames(es, e) ==
    {es[es[e].bases[i].obj].classname : i \in 1..Len(es[e].bases)}

\* The entity read back stands for the entity written.
SameEntity(o, l) ==
    /\ bin.es[l].classname = ents[o].classname
    /\ bin.es[l].type = ents[o].type
    /\ \A i \in 1..Len(bin.es[l].bases) : ~bin.es[l].bases[i].str
    /\ BaseClassnames(bin.es, l) = BaseClassnames(ents, o)
    /\ bin.es[l].desc = <<>>
    /\ \A attr \in {"keyvalues", "inputs", "outputs"} :
         /\ RecordFacts(attr_map(bin.es[l], attr))
              = RecordFacts(attr_map(ents[o], attr))
         /\ RecordDescs(attr_map(bin.es[l], attr)) \subseteq {<<>>}

(***************************************************************************)
(* C11.  For every database that parsing and apply_bases produce, with     *)
(* non-empty choices or spawnflags lists and tagged variants among them,   *)
(* serialise succeeds, and unserialise of the file gives a database in     *)
(* which every entity has the same classname, entity type and resolved     *)
(* base set, and every keyvalue, input and output record the same name,    *)
(* type, default and value list, with all descriptions empty.              *)
(***************************************************************************)
C11_BinaryRoundTrip ==
    /\ bin.at # "error"
    /\ bin.at = "loaded" =>
         /\ Len(bin.db) = Len(entities)
         /\ \A i \in 1..Len(entities) :
              /\ HasKey(bin.db, entities[i][1])
              /\ SameEntity(entities[i][2], Get(bin.db, entities[i][1]))

(***************************************************************************)
(* The grammar parser.  The lexer is outside the source modelled here: the *)
(* parser consumes its token stream, a sequence of tokens [t, v] of a type *)
(* and a text.  A text is a sequence of characters; a word whose letters   *)
(* no operation looks into (a keyword, a type name) is one character.      *)
(***************************************************************************)
Token_EOF == [t |-> "EOF", v |-> <<>>]
Token_STRING(v) == [t |-> "STRING", v |-> v]
Token_PAREN_ARGS(v) == [t |-> "PAREN_ARGS", v |-> v]
Token_NEWLINE == [t |-> "NEWLINE", v |-> <<>>]
Token_COLON == [t |-> "COLON", v |-> <<>>]
Token_EQUALS == [t |-> "EQUALS", v |-> <<>>]
Token_PLUS == [t |-> "PLUS", v |-> <<>>]
Token_BRACK_OPEN == [t |-> "BRACK_OPEN", v |-> <<>>]
Token_BRACK_CLOSE == [t |-> "BRACK_CLOSE", v |-> <<>>]

\* tok(): the token at position i, the end-of-file token past the end.
tok_call(toks, i) == IF i <= Len(toks) THEN toks[i] ELSE Token_EOF

RECURSIVE skip_newline(_, _)
skip_newline(toks, i) ==
    IF i <= Len(toks) /\ toks[i].t = "NEWLINE" THEN skip_newline(toks, i + 1)
    ELSE i

\* tok.expect(token): newlines are passed over, the next token is consumed
\* and must be of the given type.
tok_expect(toks, i, token) ==
    LET j == skip_newline(toks, i) IN
    [ok |-> tok_call(toks, j).t = token, v |-> tok_call(toks, j).v, i |-> j + 1]

\* The exception tok.error(...) builds: the parser's error type, which
\* carries the position.
FGDParseError == "FGDParseError"

RECURSIVE read_colon_list(_, _, _, _)
\* read_colon_list(tok, had_colon), from position i on: the strings read,
\* the token found at the end and the position after it.
read_colon_list(toks, i, strings, ready_for_string) ==
    IF i > Len(toks)
    THEN [err |-> FGDParseError, i |-> i, strings |-> strings, token |-> "EOF"]
    ELSE
    LET token == toks[i].t
        tok_value == toks[i].v
        bad == [err |-> FGDParseError, i |-> i + 1, strings |-> strings,
                token |-> token]
    IN  CASE token = "STRING" ->
               IF ~ready_for_string THEN bad
               ELSE read_colon_list(toks, i + 1, Append(strings, tok_value), FALSE)
          [] token = "COLON" ->
               read_colon_list(toks, i + 1,
                               IF ready_for_string THEN Append(strings, <<>>)
                               ELSE strings, TRUE)
          [] token = "PLUS" ->
               IF ready_for_string \/ strings = <<>> THEN bad
               ELSE LET x == tok_expect(toks, i + 1, "STRING") IN
                    IF ~x.ok THEN bad
                    ELSE read_colon_list(toks, x.i,
                           [strings EXCEPT ![Len(strings)] = @ \o x.v],
                           ready_for_string)
          [] token = "NEWLINE" /\ ready_for_string ->
               read_colon_list(toks, i + 1, strings, ready_for_string)
          [] OTHER ->
               IF ready_for_string THEN bad
               ELSE [err |-> "none", i |-> i + 1, strings |-> strings,
                     token |-> token]

RECURSIVE rstrip_comma(_)
\* value.rstrip(',')
rstrip_comma(s) ==
    IF Len(s) > 0 /\ s[Len(s)] = "," THEN rstrip_comma(SubSeq(s, 1, Len(s) - 1))
    ELSE s

RECURSIVE read_tags(_, _, _)
\* read_tags(tok): the open bracket was just read.
read_tags(toks, i, tags) ==
    LET token == tok_call(toks, i).t
        value == tok_call(toks, i).v
    IN  CASE token = "STRING" ->
               read_tags(toks, i + 1, Append(tags, rstrip_comma(casefold(value))))
          [] token = "BRACK_CLOSE" ->
               LET r == validate_tags(tags) IN
               [err |-> IF r.ok THEN "none" ELSE FGDParseError, i |-> i + 1,
                tags |-> r.tags]
          [] OTHER -> [err |-> FGDParseError, i |-> i + 1, tags |-> {}]

\* str.strip(), of blanks.
RECURSIVE lstrip(_)
lstrip(s) == IF Len(s) > 0 /\ s[1] = " " THEN lstrip(Tail1(s)) ELSE s
RECURSIVE rstrip(_)
rstrip(s) ==
    IF Len(s) > 0 /\ s[Len(s)] = " " THEN rstrip(SubSeq(s, 1, Len(s) - 1)) ELSE s
strip(s) == rstrip(lstrip(s))

RECURSIVE split_comma(_, _, _)
\* token_value.split(','): cur is the piece being read.
split_comma(s, i, cur) ==
    IF i > Len(s) THEN <<cur>>
    ELSE IF s[i] = "," THEN <<cur>> \o split_comma(s, i + 1, <<>>)
    ELSE split_comma(s, i + 1, Append(cur, s[i]))

\* [arg.strip() for arg in token_value.split(',')]
split_args(token_value) ==
    LET parts == split_comma(token_value, 1, <<>>) IN
    [k \in 1..Len(parts) |-> strip(parts[k])]

\* The values of HelperTypes.
HelperTypes ==
    {<<"base">>, <<"halfgridsnap">>, <<"size">>, <<"bbox">>, <<"color">>,
     <<"sphere">>, <<"line">>, <<"frustum">>, <<"cylinder">>, <<"sidelist">>,
     <<"wirebox">>, <<"sweptplayerhull">>, <<"iconsprite">>, <<"studio">>,
     <<"studioprop">>, <<"lightprop">>, <<"sprite">>, <<"instance">>,
     <<"decal">>, <<"overlay">>, <<"overlay_transition">>, <<"light">>,
     <<"lightcone">>, <<"keyframe">>, <<"animator">>, <<"quadbounds">>,
     <<"worldtext">>, <<"appliesto">>, <<"orderby">>}
INHERIT == <<"base">>
EXT_ORDERBY == <<"orderby">>

\* help_type = None
NoHelper == <<>>

\* A helper entry (help_type, args).
Helper(help_type, args) == [type |-> help_type, args |-> args]

RECURSIVE add_bases(_, _, _, _, _)
\* "for base in args": each base is looked up when eval_bases is set, and
\* appended unless already there.  An unknown name raises KeyError.
add_bases(db, eval_bases, args, k, bases) ==
    IF k > Len(args) THEN [err |-> "none", bases |-> bases]
    ELSE LET found == fgd_getitem(db, args[k]) IN
         IF eval_bases /\ ~found.found
         THEN [err |-> "KeyError", bases |-> bases]
         ELSE LET base == IF eval_bases THEN ObjBase(found.obj)
                          ELSE StrBase(args[k])
              IN  add_bases(db, eval_bases, args, k + 1,
                            IF \E j \in 1..Len(bases) : bases[j] = base
                            THEN bases ELSE Append(bases, base))

RECURSIVE parse_header(_, _, _, _, _, _, _)
\* The header loop of EntityDef.parse, from position i on, up to the '='.
parse_header(db, toks, eval_bases, i, help_type, helpers, bases) ==
    LET out(err, j, ht, hs, bs) ==
            [err |-> err, i |-> j, help_type |-> ht, helpers |-> hs, bases |-> bs]
    IN
    IF i > Len(toks)
    THEN out(FGDParseError, i, help_type, helpers, bases)
    ELSE
    LET token == toks[i].t
        token_value == toks[i].v
    IN  CASE token = "NEWLINE" ->
               parse_header(db, toks, eval_bases, i + 1, help_type, helpers, bases)
          [] token = "STRING" ->
               IF help_type = NoHelper
               THEN IF token_value \in HelperTypes
                    THEN parse_header(db, toks, eval_bases, i + 1, token_value,
                                      helpers, bases)
                    ELSE out(FGDParseError, i + 1, help_type, helpers, bases)
               ELSE parse_header(db, toks, eval_bases, i + 1, help_type,
                                 Append(helpers, Helper(help_type, << <<>> >>)),
                                 bases)
          [] token = "PAREN_ARGS" ->
               IF help_type = NoHelper
               THEN out(FGDParseError, i + 1, help_type, helpers, bases)
               ELSE LET args == split_args(token_value) IN
                    IF help_type = INHERIT
                    THEN LET r == add_bases(db, eval_bases, args, 1, bases) IN
                         IF r.err # "none"
                         THEN out(r.err, i + 1, help_type, helpers, r.bases)
                         ELSE parse_header(db, toks, eval_bases, i + 1, NoHelper,
                                           helpers, r.bases)
                    ELSE parse_header(db, toks, eval_bases, i + 1, NoHelper,
                                      Append(helpers, Helper(help_type, args)),
                                      bases)
          [] token = "EQUALS" ->
               out("none", i + 1, help_type,
                   IF help_type # NoHelper
                   THEN Append(helpers, Helper(help_type, <<>>)) ELSE helpers,
                   bases)
          [] OTHER -> out(FGDParseError, i + 1, help_type, helpers, bases)

RECURSIVE concat(_)
\* ''.join(parts)
concat(parts) == IF parts = <<>> THEN <<>> ELSE Head(parts) \o concat(Tail(parts))

RECURSIVE parse_desc(_, _, _, _)
\* The description loop of EntityDef.parse: desc is None (none) or the list
\* of the parts read.  The loop ends at '[' or at the end of the tokens.
parse_desc(toks, i, none, parts) ==
    IF i > Len(toks) THEN [err |-> "none", i |-> i, desc |-> <<>>]
    ELSE
    LET doc_token == toks[i].t IN
    CASE doc_token = "NEWLINE" -> parse_desc(toks, i + 1, none, parts)
      [] doc_token = "COLON" ->
           IF none THEN parse_desc(toks, i + 1, FALSE, <<>>)
           ELSE [err |-> FGDParseError, i |-> i + 1, desc |-> <<>>]
      [] doc_token = "STRING" ->
           IF none \/ parts # <<>>
           THEN [err |-> FGDParseError, i |-> i + 1, desc |-> <<>>]
           ELSE parse_desc(toks, i + 1, none, Append(parts, toks[i].v))
      [] doc_token = "PLUS" ->
           IF none \/ parts = <<>>
           THEN [err |-> FGDParseError, i |-> i + 1, desc |-> <<>>]
           ELSE LET x == tok_expect(toks, i + 1, "STRING") IN
                IF ~x.ok THEN [err |-> FGDParseError, i |-> x.i, desc |-> <<>>]
                ELSE parse_desc(toks, x.i, none, Append(parts, x.v))
      [] doc_token = "BRACK_OPEN" ->
           [err |-> "none", i |-> i + 1, desc |-> concat(parts)]
      [] OTHER -> [err |-> FGDParseError, i |-> i + 1, desc |-> <<>>]

\* VALUE_TYPE_LOOKUP[raw_value_type.casefold()]: the type names and the two
\* second names.
VALUE_TYPE_LOOKUP(raw) ==
    LET word == casefold(raw) IN
    IF Len(word) # 1 THEN [found |-> FALSE, type |-> "void"]
    ELSE IF word[1] \in Range(VALUE_TYPE_ORDER)
    THEN [found |-> TRUE, type |-> word[1]]
    ELSE IF word[1] = "bool" THEN [found |-> TRUE, type |-> "boolean"]
    ELSE IF word[1] = "int" THEN [found |-> TRUE, type |-> "integer"]
    ELSE [found |-> FALSE, type |-> "void"]

Digits == <<"0", "1", "2", "3", "4", "5", "6", "7", "8", "9">>
IsDigit(c) == \E d \in 1..Len(Digits) : Digits[d] = c
DigitValue(c) == (CHOOSE d \in 1..Len(Digits) : Digits[d] = c) - 1

RECURSIVE digits_value(_, _)
digits_value(s, acc) ==
    IF s = <<>> THEN acc
    ELSE digits_value(Tail(s), acc * 10 + DigitValue(Head(s)))

\* int(text): blanks around the number and a sign are allowed; anything
\* else raises ValueError (ok is FALSE).
int_of(text) ==
    LET t == strip(text)
        signed == Head1(t) \in {<<"-">>, <<"+">>}
        body == IF signed THEN Tail1(t) ELSE t
        ok == Len(body) > 0 /\ \A k \in 1..Len(body) : IsDigit(body[k])
    IN  [ok |-> ok,
         val |-> IF ~ok THEN 0
                 ELSE IF Head1(t) = <<"-">> THEN 0 - digits_value(body, 0)
                 ELSE digits_value(body, 0)]

RECURSIVE is_power_of_two(_)
\* power == round(power) for power = math.log2(n), n > 0.
is_power_of_two(n) ==
    IF n = 1 THEN TRUE
    ELSE IF n % 2 = 1 THEN FALSE
    ELSE is_power_of_two(n \div 2)

\* The checks made of the leading value of a spawnflags entry: int() inside
\* the try block, then math.log2, which raises ValueError for a number that
\* is not positive, then the comparison of the power with its rounding.
spawnflag_value(choices_value) ==
    LET checked(n) ==
          IF ~n.ok THEN [err |-> FGDParseError, val |-> 0]
          ELSE IF n.val <= 0 THEN [err |-> "ValueError", val |-> n.val]
          ELSE IF ~is_power_of_two(n.val)
          THEN [err |-> FGDParseError, val |-> n.val]
          ELSE [err |-> "none", val |-> n.val]
    IN  checked(int_of(choices_value))

RECURSIVE parse_val_list(_, _, _, _)
\* The loop reading the entries of a '[ ... ]' list, from position i on.
parse_val_list(toks, i, val_typ, val_list) ==
    LET out(err, j, l) == [err |-> err, i |-> j, val_list |-> l] IN
    IF i > Len(toks) THEN out(FGDParseError, i, val_list)
    ELSE
    LET choices_token == toks[i].t
        choices_value == toks[i].v
        \* val_list.append(...), and on to the next entry
        appended(r, t, l) ==
            IF r.token = "BRACK_CLOSE" THEN out("none", t.i, l)
            ELSE parse_val_list(toks, t.i, val_typ, l)
        \* the entry by the number of its values; n is the flag's number
        entry(r, t, n) ==
            LET vals == r.strings IN
            IF n.err # "none" THEN out(n.err, t.i, val_list)
            ELSE IF Len(vals) = 2 /\ val_typ = "flags"
            THEN appended(r, t,
                   Append(val_list, SpawnFlag(n.val, vals[1],
                                      strip(vals[2]) = <<"1">>, t.tags)))
            ELSE IF Len(vals) = 1
            THEN appended(r, t,
                   Append(val_list,
                          IF val_typ = "flags"
                          THEN SpawnFlag(n.val, vals[1], TRUE, t.tags)
                          ELSE Choice(choices_value, vals[1], t.tags)))
            ELSE out(FGDParseError, t.i, val_list)
        \* t is what read_tags gave, if the values ended at '['
        tagged(r, t) ==
            IF t.err # "none" THEN out(t.err, t.i, val_list)
            ELSE entry(r, t, IF val_typ = "flags"
                             THEN spawnflag_value(choices_value)
                             ELSE [err |-> "none", val |-> 0])
        \* r is what read_colon_list gave: vals and end_token
        listed(r) ==
            IF r.err # "none" THEN out(r.err, r.i, val_list)
            ELSE tagged(r, IF r.token = "BRACK_OPEN"
                           THEN read_tags(toks, r.i, <<>>)
                           ELSE [err |-> "none", i |-> r.i, tags |-> {}])
    IN
    CASE choices_token = "NEWLINE" -> parse_val_list(toks, i + 1, val_typ, val_list)
      [] choices_token = "BRACK_CLOSE" -> out("none", i + 1, val_list)
      [] choices_token # "STRING" /\ choices_token \notin {"NEWLINE", "BRACK_CLOSE"} ->
           out(FGDParseError, i + 1, val_list)
      [] OTHER -> listed(read_colon_list(toks, i + 1, <<>>, FALSE))

\* The marker word.
READONLY == <<"r", "e", "a", "d", "o", "n", "l", "y">>

\* "is_readonly == 'readonly'": is_readonly is a bool, and a bool is never
\* equal to a str.
bool_eq_str(is_readonly, word) == FALSE

\* tags_map = attr.setdefault(key, {}); tags_map[tags] = value
put_variant(attr, key, tags, value) ==
    Put(attr, key, Put(IF HasKey(attr, key) THEN Get(attr, key) ELSE <<>>,
                       tags, value))

\* An input or output line of the body: the keyword was read at i - 1.
parse_io_line(toks, i, entity, io_type) ==
    LET out(err, j, e) == [err |-> err, i |-> j, entity |-> e]
        \* r is what read_colon_list gave: the description, if any
        store(nm, t, val_typ, r) ==
            IF r.err # "none" THEN out(r.err, r.i, entity)
            ELSE IF r.token = "EQUALS" THEN out(FGDParseError, r.i, entity)
            ELSE IF Len(r.strings) > 1 THEN out(FGDParseError, r.i, entity)
            ELSE
            LET name == nm.v
                io_desc == IF r.strings = <<>> THEN <<>> ELSE r.strings[1]
                io == IODef(name, val_typ.type, io_desc)
            IN  out("none", r.i,
                    IF io_type = <<"input">>
                    THEN [entity EXCEPT
                            !.inputs = put_variant(@, casefold(name), t.tags, io)]
                    ELSE [entity EXCEPT
                            !.outputs = put_variant(@, casefold(name), t.tags, io)])
        typed(nm, t, val_typ) ==
            IF ~val_typ.found THEN out(FGDParseError, t.i + 1, entity)
            ELSE IF has_list(val_typ.type) THEN out(FGDParseError, t.i + 1, entity)
            ELSE store(nm, t, val_typ, read_colon_list(toks, t.i + 1, <<>>, FALSE))
        \* t is what read_tags gave, if the name is followed by '['
        tagged(nm, t) ==
            IF t.err # "none" THEN out(t.err, t.i, entity)
            ELSE LET raw_value_type == strip(tok_call(toks, t.i).v)
                 IN  typed(nm, t, VALUE_TYPE_LOOKUP(raw_value_type))
        named(nm) ==
            IF ~nm.ok THEN out(FGDParseError, nm.i, entity)
            ELSE tagged(nm, IF tok_call(toks, nm.i).t = "BRACK_OPEN"
                            THEN read_tags(toks, nm.i + 1, <<>>)
                            ELSE [err |-> "none", i |-> nm.i, tags |-> {}])
    IN  named(tok_expect(toks, i, "STRING"))

\* A keyvalue line of the body: its name (casefolded) was read at i - 1.
parse_kv_line(toks, i, entity, name) ==
    LET out(err, j, e) == [err |-> err, i |-> j, entity |-> e]
        key == casefold(name)
        \* l is the value list read, if the type has one
        store(t, val_typ, is_readonly, attrs, l) ==
            IF l.err # "none" THEN out(l.err, l.i, entity)
            ELSE
            LET attr_len == Len(attrs)
                disp_name == IF attr_len = 0 THEN name ELSE attrs[1]
                default == IF attr_len >= 2 THEN attrs[2] ELSE <<>>
                desc == IF attr_len = 3 THEN attrs[3] ELSE <<>>
                kv == ParsedKV(name, val_typ.type, disp_name, default, desc,
                               IF has_list(val_typ.type) THEN ListOf(l.val_list)
                               ELSE NoneList,
                               bool_eq_str(is_readonly, READONLY))
                is_new == \/ ~HasKey(entity.keyvalues, key)
                          \/ Get(entity.keyvalues, key) = <<>>
            IN  out("none", l.i,
                    [entity EXCEPT
                       !.keyvalues = put_variant(@, key, t.tags, kv),
                       !.kv_order = IF is_new THEN Append(@, key) ELSE @])
        \* r is what read_colon_list gave: attrs and has_equal
        listed(t, val_typ, is_readonly, r) ==
            LET attrs == r.strings
                has_equal == r.token
                open == tok_expect(toks, r.i, "BRACK_OPEN")
            IN
            IF r.err # "none" THEN out(r.err, r.i, entity)
            ELSE IF Len(attrs) > 3 THEN out(FGDParseError, r.i, entity)
            ELSE IF has_list(val_typ.type) /\ has_equal # "EQUALS"
            THEN out(FGDParseError, r.i, entity)
            ELSE IF ~has_list(val_typ.type) /\ has_equal = "EQUALS"
            THEN out(FGDParseError, r.i, entity)
            ELSE store(t, val_typ, is_readonly, attrs,
                   IF ~has_list(val_typ.type)
                   THEN [err |-> "none", i |-> r.i, val_list |-> <<>>]
                   ELSE IF ~open.ok
                   THEN [err |-> FGDParseError, i |-> open.i, val_list |-> <<>>]
                   ELSE parse_val_list(toks, open.i, val_typ.type, <<>>))
        typed(t, val_typ) ==
            LET val_token == tok_call(toks, t.i)
                next_token == tok_call(toks, t.i + 1).t
                key_flag == tok_call(toks, t.i + 1).v
                is_readonly == next_token = "STRING" /\ casefold(key_flag) = READONLY
                had_colon == next_token = "COLON"
                no_attrs == \/ next_token = "EQUALS" /\ val_typ.type = "flags"
                            \/ next_token = "NEWLINE"
            IN
            IF val_token.t # "PAREN_ARGS" \/ ~val_typ.found
            THEN out(FGDParseError, t.i + 1, entity)
            ELSE IF next_token \notin {"STRING", "COLON", "EQUALS", "NEWLINE"}
            THEN out(FGDParseError, t.i + 2, entity)
            ELSE listed(t, val_typ, is_readonly,
                   IF no_attrs
                   THEN [err |-> "none", i |-> t.i + 2, strings |-> <<>>,
                         token |-> next_token]
                   ELSE read_colon_list(toks, t.i + 2, <<>>, had_colon))
        \* t is what read_tags gave, if the name is followed by '['
        tagged(t) ==
            IF t.err # "none" THEN out(t.err, t.i, entity)
            ELSE typed(t, VALUE_TYPE_LOOKUP(strip(tok_call(toks, t.i).v)))
    IN  tagged(IF tok_call(toks, i).t = "BRACK_OPEN"
               THEN read_tags(toks, i + 1, <<>>)
               ELSE [err |-> "none", i |-> i, tags |-> {}])

RECURSIVE parse_body(_, _, _)
\* The body loop of EntityDef.parse: lines up to the closing ']', or to the
\* end of the tokens.
parse_body(toks, i, entity) ==
    LET out(err, j, e) == [err |-> err, i |-> j, entity |-> e] IN
    IF i > Len(toks) THEN out("none", i, entity)
    ELSE
    LET token == toks[i].t
        io_type == casefold(toks[i].v)
    IN
    CASE token = "BRACK_CLOSE" -> out("none", i + 1, entity)
      [] token = "NEWLINE" -> parse_body(toks, i + 1, entity)
      [] token \notin {"BRACK_CLOSE", "NEWLINE", "STRING"} ->
           out(FGDParseError, i + 1, entity)
      [] OTHER ->
           LET next_line(r) ==
                 IF r.err # "none" THEN r ELSE parse_body(toks, r.i, r.entity)
           IN  next_line(IF io_type \in {<<"input">>, <<"output">>}
                         THEN parse_io_line(toks, i + 1, entity, io_type)
                         ELSE parse_kv_line(toks, i + 1, entity, io_type))

\* The objects EntityDef.parse makes, in the order made.
ParsedObj(n) == <<"p1", "p2", "p3", "p4">>[n]

\* EntityDef.parse(fgd, tok, ent_type, eval_bases), from position i on.  The
\* state st holds the entity objects made so far (es), the database (db)
\* and their number (n).  The entity is registered once its description is
\* read, and stays registered if its body fails.
EntityDef_parse(st, toks, i, ent_type, eval_bases) ==
    LET out(err, j, s) == [err |-> err, i |-> j, st |-> s]
        obj == ParsedObj(st.n + 1)
        \* b is what the body loop gave; the entity is in the database
        registered(entity, b) ==
            out(b.err, b.i,
                [es |-> (obj :> b.entity) @@ st.es,
                 db |-> Put(st.db, casefold(entity.classname), obj),
                 n |-> st.n + 1])
        created(d, entity) == registered(entity, parse_body(toks, d.i, entity))
        described(h, cn, d) ==
            IF d.err # "none" THEN out(d.err, d.i, st)
            ELSE created(d,
                   [EntityDef(strip(cn.v), h.bases, <<>>, <<>>, <<>>, <<>>)
                      EXCEPT !.type = ent_type, !.helpers = h.helpers,
                             !.desc = d.desc])
        named(h, cn) ==
            IF ~cn.ok THEN out(FGDParseError, cn.i, st)
            ELSE described(h, cn, parse_desc(toks, cn.i, TRUE, <<>>))
        headed(h) ==
            IF h.err # "none" THEN out(h.err, h.i, st)
            ELSE named(h, tok_expect(toks, h.i, "STRING"))
    IN  headed(parse_header(st.db, toks, eval_bases, i, NoHelper, <<>>, <<>>))

(***************************************************************************)
(* The text output.  The text written is given as the tokens it is read    *)
(* back as: a bare or quoted word is a STRING, '(...)' is a PAREN_ARGS     *)
(* with the text between the parentheses, comments and blanks give none.   *)
(***************************************************************************)
\* The text of each value of EntityTypes.
EntityTypeText(type) ==
    CASE type = "baseclass" -> <<"b", "a", "s", "e", "c", "l", "a", "s", "s">>
      [] type = "pointclass" -> <<"p", "o", "i", "n", "t", "c", "l", "a", "s", "s">>
      [] type = "solidclass" -> <<"s", "o", "l", "i", "d", "c", "l", "a", "s", "s">>
      [] type = "keyframeclass" ->
           <<"k", "e", "y", "f", "r", "a", "m", "e", "c", "l", "a", "s", "s">>
      [] type = "moveclass" -> <<"m", "o", "v", "e", "c", "l", "a", "s", "s">>
      [] type = "filterclass" ->
           <<"f", "i", "l", "t", "e", "r", "c", "l", "a", "s", "s">>
      [] type = "npcclass" -> <<"n", "p", "c", "c", "l", "a", "s", "s">>

\* EntityTypes(text): the member of that value, if any.
EntityTypes(text) ==
    IF \E type \in Range(ENTITY_TYPE_ORDER) : EntityTypeText(type) = text
    THEN [found |-> TRUE,
          type |-> CHOOSE type \in Range(ENTITY_TYPE_ORDER) :
                     EntityTypeText(type) = text]
    ELSE [found |-> FALSE, type |-> "baseclass"]

IsLetter(c) == UpperChar(c) # c \/ LowerChar(c) # c

\* str.title(): a letter after a non-letter is upper-cased, the others are
\* lower-cased.
title(s) ==
    [k \in 1..Len(s) |-> IF k = 1 \/ ~IsLetter(s[k - 1]) THEN UpperChar(s[k])
                         ELSE LowerChar(s[k])]

RECURSIVE replace(_, _, _)
\* s.replace(old, new), old not empty.
replace(s, old, new) ==
    IF Len(s) < Len(old) THEN s
    ELSE IF SubSeq(s, 1, Len(old)) = old
    THEN new \o replace(SubSeq(s, Len(old) + 1, Len(s)), old, new)
    ELSE <<s[1]>> \o replace(Tail(s), old, new)

RECURSIVE join(_, _)
\* sep.join(parts)
join(sep, parts) ==
    IF parts = <<>> THEN <<>>
    ELSE IF Len(parts) = 1 THEN parts[1]
    ELSE parts[1] \o sep \o join(sep, Tail(parts))

RECURSIVE words(_, _, _)
\* The STRING tokens a text of words, blanks between them, is read as.
words(s, i, cur) ==
    IF i > Len(s) THEN IF cur = <<>> THEN <<>> ELSE <<Token_STRING(cur)>>
    ELSE IF s[i] = " "
    THEN (IF cur = <<>> THEN <<>> ELSE <<Token_STRING(cur)>>) \o words(s, i + 1, <<>>)
    ELSE words(s, i + 1, Append(cur, s[i]))

\* '[' + ', '.join(tags) + ']', written when tags is not empty.
export_tags(tags) ==
    IF tags = {} THEN <<>>
    ELSE <<Token_BRACK_OPEN>> \o words(join(<<",", " ">>, SetToSeq(tags)), 1, <<>>)
         \o <<Token_BRACK_CLOSE>>

RECURSIVE str_of_nat(_)
str_of_nat(n) ==
    IF n < 10 THEN <<Digits[n + 1]>>
    ELSE str_of_nat(n \div 10) \o <<Digits[(n % 10) + 1]>>
\* str(n)
str_of_int(n) == IF n < 0 THEN <<"-">> \o str_of_nat(0 - n) ELSE str_of_nat(n)

\* desc.replace('\n', '\\n')
escape_newlines(desc) == replace(desc, <<"\n">>, <<"\\", "n">>)

is_literal(type) == type \in {"boolean", "integer", "float"}

RECURSIVE export_flags(_, _)
\* "for index, name, default, tags in self.val_list or ()"
export_flags(items, k) ==
    IF k > Len(items) THEN [err |-> "none", toks |-> <<>>]
    ELSE IF DOMAIN items[k] # {"val", "name", "default", "tags"}
    THEN [err |-> "ValueError", toks |-> <<>>]
    ELSE LET rest == export_flags(items, k + 1) IN
         [err |-> rest.err,
          toks |-> <<Token_STRING(str_of_int(items[k].val)), Token_COLON,
                     Token_STRING(items[k].name), Token_COLON,
                     Token_STRING(IF items[k].default THEN <<"1">> ELSE <<"0">>)>>
                   \o export_tags(items[k].tags) \o <<Token_NEWLINE>> \o rest.toks]

RECURSIVE export_choices(_, _)
\* "for value, name, tags in self.val_list or ()": the value is written
\* bare if it reads as a number, quoted if not, and is the same word read.
export_choices(items, k) ==
    IF k > Len(items) THEN [err |-> "none", toks |-> <<>>]
    ELSE IF DOMAIN items[k] # {"val", "name", "tags"}
    THEN [err |-> "ValueError", toks |-> <<>>]
    ELSE LET rest == export_choices(items, k + 1) IN
         [err |-> rest.err,
          toks |-> <<Token_STRING(items[k].val), Token_COLON,
                     Token_STRING(items[k].name)>>
                   \o export_tags(items[k].tags) \o <<Token_NEWLINE>> \o rest.toks]

\* KeyValues.export(file, tags)
kv_export(kv, tags) ==
    LET head == <<Token_STRING(kv.name)>> \o export_tags(tags)
                \o <<Token_PAREN_ARGS(<<kv.type>>)>>
                \o (IF kv.readonly THEN <<Token_STRING(READONLY)>> ELSE <<>>)
                \o <<Token_COLON, Token_STRING(kv.disp_name)>>
                \o (IF kv.default # <<>>
                    THEN <<Token_COLON, Token_STRING(kv.default)>>
                         \o (IF kv.desc # <<>>
                             THEN <<Token_COLON, Token_STRING(escape_newlines(kv.desc))>>
                             ELSE <<>>)
                    ELSE IF kv.desc # <<>>
                    THEN <<Token_COLON, Token_COLON,
                           Token_STRING(escape_newlines(kv.desc))>>
                    ELSE <<>>)
        items == IF truthy(kv.val_list) THEN kv.val_list.items ELSE <<>>
        list == IF kv.type = "flags" THEN export_flags(items, 1)
                ELSE export_choices(items, 1)
    IN  IF ~has_list(kv.type)
        THEN [err |-> "none", toks |-> head \o <<Token_NEWLINE>>]
        ELSE [err |-> list.err,
              toks |-> head \o <<Token_EQUALS, Token_NEWLINE, Token_BRACK_OPEN,
                                 Token_NEWLINE>>
                       \o list.toks \o <<Token_BRACK_CLOSE, Token_NEWLINE,
                                         Token_NEWLINE>>]

\* IODef.export(file, io_type, tags)
io_export(io, io_type, tags) ==
    <<Token_STRING(<<io_type>>), Token_STRING(io.name)>> \o export_tags(tags)
    \o <<Token_PAREN_ARGS(<<io.type>>)>>
    \o (IF io.desc # <<>> THEN <<Token_COLON, Token_STRING(io.desc)>> ELSE <<>>)
    \o <<Token_NEWLINE>>

RECURSIVE export_variants(_, _, _)
\* "for tags, kv in kv_map.items(): kv.export(file, tags)"
export_variants(tags_map, k, io_type) ==
    IF k > Len(tags_map) THEN [err |-> "none", toks |-> <<>>]
    ELSE LET both(one, rest) ==
               [err |-> rest.err, toks |-> one.toks \o rest.toks]
             then(one) ==
               IF one.err # "none" THEN one
               ELSE both(one, export_variants(tags_map, k + 1, io_type))
         IN  then(IF io_type = "keyvalue"
                  THEN kv_export(tags_map[k][2], tags_map[k][1])
                  ELSE [err |-> "none",
                        toks |-> io_export(tags_map[k][2], io_type,
                                           tags_map[k][1])])

RECURSIVE export_map(_, _, _)
\* The variants of every name of a dict, in the order given.
export_map(attr, k, io_type) ==
    IF k > Len(attr) THEN [err |-> "none", toks |-> <<>>]
    ELSE LET both(one, rest) ==
               [err |-> rest.err, toks |-> one.toks \o rest.toks]
             then(one) ==
               IF one.err # "none" THEN one
               ELSE both(one, export_map(attr, k + 1, io_type))
         IN  then(export_variants(attr[k][2], 1, io_type))

\* kv_order.get(name, 2**64) for the dict {name: ind}: the last position
\* of the name in the order, and past every position if it is not there.
order_key(order, name) ==
    IF \E k \in 1..Len(order) : order[k] = name
    THEN CHOOSE k \in 1..Len(order) :
           order[k] = name /\ \A j \in (k + 1)..Len(order) : order[j] # name
    ELSE Len(order) + 1

RECURSIVE sorted_by_key(_, _, _)
\* sorted(keyvalues.items(), key=...): stable, by rising key.
sorted_by_key(attr, order, key) ==
    IF key > Len(order) + 1 THEN <<>>
    ELSE SelectSeq(attr, LAMBDA it : order_key(order, it[1]) = key)
         \o sorted_by_key(attr, order, key + 1)

RECURSIVE helper_tokens(_, _)
\* "for helper, args in self.helpers": '\n\thelper(args) '
helper_tokens(helpers, k) ==
    IF k > Len(helpers) THEN <<>>
    ELSE <<Token_NEWLINE, Token_STRING(helpers[k].type),
           Token_PAREN_ARGS(join(<<",", " ">>, helpers[k].args))>>
         \o helper_tokens(helpers, k + 1)

RECURSIVE orderby_names(_, _)
\* kv_order_list: the casefolded arguments of the 'orderby' helpers.
orderby_names(helpers, k) ==
    IF k > Len(helpers) THEN <<>>
    ELSE (IF helpers[k].type = EXT_ORDERBY
          THEN [j \in 1..Len(helpers[k].args) |-> casefold(helpers[k].args[j])]
          ELSE <<>>) \o orderby_names(helpers, k + 1)

\* The name written for a base: its classname, or the string it still is.
base_text(es, base) == IF base.str THEN base.name ELSE es[base.obj].classname

\* EntityDef.export(file)
ent_export(es, e) ==
    LET self == es[e]
        kv_order_list == orderby_names(self.helpers, 1)
        order == IF kv_order_list # <<>> THEN kv_order_list ELSE self.kv_order
        head == <<Token_NEWLINE,
                  Token_STRING(<<"@">> \o replace(title(EntityTypeText(self.type)),
                                                  <<"c", "l", "a", "s", "s">>,
                                                  <<"C", "l", "a", "s", "s">>))>>
                \o (IF self.bases # <<>>
                    THEN <<Token_STRING(INHERIT),
                           Token_PAREN_ARGS(join(<<",", " ">>,
                              [k \in 1..Len(self.bases) |->
                                 base_text(es, self.bases[k])]))>>
                    ELSE <<>>)
                \o helper_tokens(self.helpers, 1)
                \o (IF self.helpers # <<>> THEN <<Token_NEWLINE>> ELSE <<>>)
                \o <<Token_EQUALS, Token_STRING(self.classname)>>
                \o (IF self.desc # <<>>
                    THEN <<Token_COLON, Token_STRING(escape_newlines(self.desc))>>
                    ELSE <<>>)
                \o <<Token_NEWLINE, Token_BRACK_OPEN, Token_NEWLINE>>
        ins == export_map(self.inputs, 1, "input")
        outs == export_map(self.outputs, 1, "output")
        written(kvs) ==
          IF kvs.err # "none" THEN kvs
          ELSE [err |-> "none",
                toks |-> head \o kvs.toks
                         \o (IF self.inputs # <<>>
                             THEN <<Token_NEWLINE, Token_NEWLINE>>
                             ELSE <<>>) \o ins.toks
                         \o (IF self.outputs # <<>>
                             THEN <<Token_NEWLINE, Token_NEWLINE>>
                             ELSE <<>>) \o outs.toks
                         \o <<Token_BRACK_CLOSE, Token_NEWLINE>>]
    IN  written(export_map(sorted_by_key(self.keyvalues, order, 1), 1,
                           "keyvalue"))

RECURSIVE export_entities(_, _, _)
\* "for ent in self.entities.values(): ent.export(file)": database order.
export_entities(es, db, k) ==
    IF k > Len(db) THEN [err |-> "none", toks |-> <<>>]
    ELSE LET both(one, rest) ==
               [err |-> rest.err, toks |-> one.toks \o rest.toks]
             then(one) ==
               IF one.err # "none" THEN one
               ELSE both(one, export_entities(es, db, k + 1))
         IN  then(ent_export(es, db[k][2]))

\* FGD.export(): the text, for a database whose two map sizes are equal.
fgd_export(es, db) == export_entities(es, db, 1)

(***************************************************************************)
(* FGD.parse_file.  The call is recursive over '@include', so it is taken  *)
(* one top-level item at a time: inc holds the files (fs), the stack of    *)
(* the calls in progress, each a file and the position of its tokeniser,   *)
(* _parse_list, and the files opened so far in order (opened, a history);  *)
(* prs holds the database being built.  The files hold no '@mapsize'.      *)
(***************************************************************************)
\* The calls of parse_file made from outside in one run.
MaxParses == 2
\* The depth of calls at which the interpreter raises RecursionError.
MaxDepth == 4

\* "if not include_file.endswith('.fgd'): include_file += '.fgd'"
include_name(include_file) ==
    IF Len(include_file) > 0 /\ include_file[Len(include_file)] = ".fgd"
    THEN include_file ELSE Append(include_file, ".fgd")

\* filesys[include_file]: the file system maps a path to its file, the
\* same file for the same path.
filesys_getitem(fs, path) == [found |-> path \in DOMAIN fs, file |-> path]

\* Mutant: no file is ever found in the list.
in_parse_list_never(parse_list, file) == FALSE

\* "file in self._parse_list"
in_parse_list(parse_list, file) ==
    \E k \in 1..Len(parse_list) : parse_list[k] = file

\* The start of parse_file(filesys, file): a file of the list is left at
\* once, another is added to the list and opened.
parse_file_enter(I, file) ==
    IF in_parse_list(I.parse_list, file) THEN I
    ELSE IF Len(I.stack) >= MaxDepth
    THEN [I EXCEPT !.err = "RecursionError"]
    ELSE [I EXCEPT !.parse_list = Append(@, file),
                   !.stack = Append(@, [file |-> file, i |-> 1]),
                   !.opened = Append(@, file)]

\* The state a call from outside, or a step, leaves: an exception closes
\* every file on its way out.
parse_file_settle(I) ==
    IF I.err # "none" THEN [I EXCEPT !.at = "error", !.stack = <<>>]
    ELSE IF I.stack = <<>> THEN [I EXCEPT !.at = "done"]
    ELSE [I EXCEPT !.at = "run"]

Frame == inc.stack[Len(inc.stack)]
FrameToken == tok_call(inc.fs[Frame.file], Frame.i)
AtInclude ==
    FrameToken.t = "STRING" /\ casefold(FrameToken.v) = <<"@", "include">>
Advance(I, i) == [I EXCEPT !.stack[Len(I.stack)].i = i]

OtherVars == <<ents, entities, pc, lastop, status, calls, todo, pending, done,
               deferred, passes, marked, snap, view, mt, bin, sd, vt, ib, hp>>

\* fgd.parse_file(filesys, file), called from outside.
ParseFile ==
    /\ inc.at \in {"ready", "done"}
    /\ inc.calls < MaxParses
    /\ \E file \in DOMAIN inc.fs :
         inc' = parse_file_settle(parse_file_enter(
                    [inc EXCEPT !.calls = @ + 1], file))
    /\ UNCHANGED prs
    /\ UNCHANGED OtherVars

\* The '@include' item: the file named is parsed by a call of parse_file.
ParseInclude ==
    /\ inc.at = "run"
    /\ Frame.i <= Len(inc.fs[Frame.file])
    /\ AtInclude
    /\ LET x == tok_expect(inc.fs[Frame.file], Frame.i + 1, "STRING")
           include == filesys_getitem(inc.fs, include_name(x.v))
       IN  inc' = parse_file_settle(
                    IF ~x.ok THEN [inc EXCEPT !.err = FGDParseError]
                    ELSE IF ~include.found
                    THEN [inc EXCEPT !.err = "FileNotFoundError"]
                    ELSE parse_file_enter(Advance(inc, x.i), include.file))
    /\ UNCHANGED prs
    /\ UNCHANGED OtherVars

\* Any other top-level item: an empty line, or an entity definition.
ParseItem ==
    /\ inc.at = "run"
    /\ Frame.i <= Len(inc.fs[Frame.file])
    /\ ~AtInclude
    /\ LET toks == inc.fs[Frame.file]
           token_value == casefold(FrameToken.v)
           ent_type == EntityTypes(Tail1(token_value))
       IN  CASE FrameToken.t = "NEWLINE" ->
                  /\ inc' = Advance(inc, Frame.i + 1)
                  /\ UNCHANGED prs
             [] FrameToken.t = "STRING" /\ Head1(token_value) = <<"@">>
                  /\ ent_type.found ->
                  \E r \in {EntityDef_parse(prs.st, toks, Frame.i + 1,
                                            ent_type.type, prs.eval_bases)} :
                     /\ inc' = parse_file_settle(
                                 [Advance(inc, r.i) EXCEPT !.err = r.err])
                     /\ prs' = [prs EXCEPT !.st = r.st]
             [] OTHER ->
                  /\ inc' = parse_file_settle([inc EXCEPT !.err = FGDParseError])
                  /\ UNCHANGED prs
    /\ UNCHANGED OtherVars

\* The end of a file: the call returns to its caller.
ParseReturn ==
    /\ inc.at = "run"
    /\ Frame.i > Len(inc.fs[Frame.file])
    /\ inc' = parse_file_settle(
                [inc EXCEPT !.stack = SubSeq(@, 1, Len(@) - 1)])
    /\ UNCHANGED prs
    /\ UNCHANGED OtherVars

\* FGD(): no file parsed, no entity.
NewFGD == [es |-> <<>>, db |-> <<>>, n |-> 0]

\* The state before the first call, for the files fs; src records what the
\* files were written from.
ReadyToParse(fs, eval_bases, src) ==
    /\ inc = [at |-> "ready", fs |-> fs, stack |-> <<>>, parse_list |-> <<>>,
              opened |-> <<>>, err |-> "none", calls |-> 0]
    /\ prs = [at |-> "fgd", st |-> NewFGD, eval_bases |-> eval_bases,
              src |-> src]

(***************************************************************************)
(* The files the parser is run on.                                         *)
(***************************************************************************)
FileA == <<"a", ".fgd">>
FileB == <<"b", ".fgd">>
FileC == <<"c", ".fgd">>

\* '@PointClass' as written by hand, in lower case.
AtPointClass == Token_STRING(<<"@">> \o EntityTypeText("pointclass"))

RECURSIVE IncludeTokens(_)
\* '@include "name"' lines.
IncludeTokens(names) ==
    IF names = <<>> THEN <<>>
    ELSE <<Token_STRING(<<"@", "include">>), Token_STRING(Head(names)),
           Token_NEWLINE>> \o IncludeTokens(Tail(names))

\* '@PointClass = name [ ka(string) ]'
SmallEntity(name) ==
    <<AtPointClass, Token_EQUALS, Token_STRING(name), Token_NEWLINE,
      Token_BRACK_OPEN, Token_NEWLINE, Token_STRING(kA),
      Token_PAREN_ARGS(<<"string">>), Token_NEWLINE, Token_BRACK_CLOSE,
      Token_NEWLINE>>

\* The names a file may include: with and without the suffix, and one of no
\* file.
IncludeNames == {<<"a">>, FileB, <<"c">>, <<"z">>}

SeqsUpTo(S, n) == UNION {[1..k -> S] : k \in 0..n}

\* The items of a header: a helper with arguments, two without, and bases.
\* 'args' is the argument list written.
HeaderItems ==
    {[type |-> <<"size">>, bare |-> FALSE, text |-> <<"1", ",", " ", "2">>,
      args |-> << <<"1">>, <<"2">> >>],
     [type |-> <<"halfgridsnap">>, bare |-> TRUE, text |-> <<>>, args |-> <<>>],
     [type |-> <<"sphere">>, bare |-> TRUE, text |-> <<>>, args |-> <<>>],
     [type |-> INHERIT, bare |-> FALSE, text |-> <<"b">>, args |-> << <<"b">> >>]}

RECURSIVE HeaderTokens(_)
HeaderTokens(items) ==
    IF items = <<>> THEN <<>>
    ELSE <<Token_STRING(Head(items).type)>>
         \o (IF Head(items).bare THEN <<>>
             ELSE <<Token_PAREN_ARGS(Head(items).text)>>)
         \o HeaderTokens(Tail(items))

\* 'value : "n" : 1', one entry of a spawnflags list.
FlagEntry(value) ==
    <<Token_STRING(value), Token_COLON, Token_STRING(<<"n">>), Token_COLON,
      Token_STRING(<<"1">>), Token_NEWLINE>>

\* A spawnflags line whose list holds the entries of the values given.
FlagsLine(values) ==
    [kind |-> "flags", marker |-> FALSE, values |-> values,
     toks |-> <<Token_STRING(kK), Token_PAREN_ARGS(<<"flags">>), Token_EQUALS,
                Token_NEWLINE, Token_BRACK_OPEN, Token_NEWLINE>>
              \o (IF Len(values) > 0 THEN FlagEntry(values[1]) ELSE <<>>)
              \o (IF Len(values) > 1 THEN FlagEntry(values[2]) ELSE <<>>)
              \o <<Token_BRACK_CLOSE, Token_NEWLINE>>]

\* A keyvalue line 'ka(type) word : "d"': the word is the readonly marker,
\* another word, or absent.
PlainLine(type, word, marker, attrs) ==
    [kind |-> "plain", marker |-> marker, values |-> <<>>,
     toks |-> <<Token_STRING(kA), Token_PAREN_ARGS(<<type>>)>>
              \o (IF word = <<>> THEN <<>> ELSE <<Token_STRING(word)>>)
              \o (IF attrs THEN <<Token_COLON, Token_STRING(<<"d">>)>> ELSE <<>>)
              \o <<Token_NEWLINE>>]

FlagValues ==
    {<<"1">>, <<"2">>, <<"3">>, <<"4">>, <<"6">>, <<"0">>, <<"-", "2">>,
     <<"1", "6">>, <<"1", "2">>, <<"x">>}

BodyLines ==
    {PlainLine("string", READONLY, TRUE, TRUE),
     PlainLine("integer", <<"R", "e", "a", "d", "O", "n", "l", "y">>, TRUE, TRUE),
     PlainLine("string", READONLY, TRUE, FALSE),
     PlainLine("string", <<"r", "e", "p", "o", "r", "t">>, FALSE, TRUE),
     PlainLine("string", <<>>, FALSE, TRUE),
     PlainLine("float", <<>>, FALSE, FALSE)}
    \cup {FlagsLine(<<v>>) : v \in FlagValues}
    \cup {FlagsLine(<<<<"1">>, v>>) : v \in {<<"2">>, <<"5">>, <<"0">>}}
    \cup {FlagsLine(<<>>)}

\* '@PointClass header = A [ line ]'
EntityText(items, line) ==
    <<AtPointClass>> \o HeaderTokens(items)
    \o <<Token_EQUALS, Token_STRING(<<"A">>), Token_NEWLINE, Token_BRACK_OPEN,
         Token_NEWLINE>> \o line.toks \o <<Token_BRACK_CLOSE, Token_NEWLINE>>

NoDatabase ==
    /\ ents = <<>>
    /\ entities = <<>>
    /\ Quiet /\ NoCall /\ NoBin /\ NoSd /\ NoVt /\ NoIb /\ NoHp

\* Files that include each other in every way, each with an entity.
InitIncludes ==
    \E ina \in SeqsUpTo(IncludeNames, 2) :
       \E inb \in SeqsUpTo(IncludeNames, 1) :
       \E inc3 \in {<<>>, <<<<"a">>>>, <<FileC>>} :
         ReadyToParse((FileA :> (IncludeTokens(ina) \o SmallEntity(<<"A">>)))
                      @@ (FileB :> (IncludeTokens(inb) \o SmallEntity(<<"b">>)))
                      @@ (FileC :> (IncludeTokens(inc3) \o SmallEntity(<<"C">>))),
                      TRUE,
                      [items |-> <<>>, one |-> FALSE,
                       line |-> PlainLine("string", <<>>, FALSE, FALSE)])

\* One file with one entity, of every header and body line.
InitEntity ==
    \E items \in SeqsUpTo(HeaderItems, 3) :
    \E line \in BodyLines :
    \E eval_bases \in BOOLEAN :
      /\ Len(items) > 1 => line = PlainLine("string", <<>>, FALSE, TRUE)
      /\ eval_bases => \A k \in 1..Len(items) : items[k].type # INHERIT
      /\ ReadyToParse(FileA :> EntityText(items, line), eval_bases,
                      [items |-> items, one |-> TRUE, line |-> line])

InitParse == NoDatabase /\ (InitIncludes \/ InitEntity)

NextParse == ParseFile \/ ParseInclude \/ ParseItem \/ ParseReturn

SpecParse == InitParse /\ [][NextParse]_vars

(***************************************************************************)
(* Claims about the parser.                                                *)
(***************************************************************************)
\* The one entity of the file has been read to its end without error.
ParsedOne == prs.at = "fgd" /\ prs.src.one /\ inc.at = "done" /\ prs.st.n = 1

\* The entity parse made first.
FirstParsed == prs.st.es["p1"]

\* C13: a keyvalue line with the readonly marker after its value type gives
\* a KeyValue whose readonly flag is true, and a line without the marker
\* gives one whose flag is false.
C13_ReadOnlyMarker ==
    (ParsedOne /\ prs.src.line.kind = "plain") =>
        /\ Held(FirstParsed.keyvalues, kA, {})
        /\ Rec(FirstParsed.keyvalues, kA, {}).readonly = prs.src.line.marker

RECURSIVE WrittenHelpers(_)
\* The helper entries a header was written for: one for each item that is
\* not a base list, with the arguments written, none for a bare name.
WrittenHelpers(items) ==
    IF items = <<>> THEN <<>>
    ELSE (IF Head(items).type = INHERIT THEN <<>>
          ELSE <<Helper(Head(items).type, Head(items).args)>>)
         \o WrittenHelpers(Tail(items))

\* C14: after the header is parsed the helper list holds, in header order,
\* one entry for each helper name written that is not a base list, with
\* that helper's own arguments, and an empty argument list for a helper
\* written without one.
C14_HeaderHelpers ==
    (prs.at = "fgd" /\ prs.src.one /\ prs.st.n = 1) =>
        FirstParsed.helpers = WrittenHelpers(prs.src.items)

\* n is 1, 2, 4, 8, ...
IsPowerOfTwo(n) == \E k \in 0..16 : n = 2 ^ k

\* The list of the line holds an entry whose leading value is an integer
\* that is not a power of two.
HasBadFlag(line) ==
    /\ line.kind = "flags"
    /\ \E k \in 1..Len(line.values) :
         /\ int_of(line.values[k]).ok
         /\ ~IsPowerOfTwo(int_of(line.values[k]).val)

\* C15: a spawnflags entry whose leading value is an integer that is not a
\* power of two, zero and negative numbers among them, ends the parse with
\* the parser's syntax error, and no keyvalue is recorded for the line.
C15_SpawnflagPowerOfTwo ==
    (prs.at = "fgd" /\ prs.src.one /\ HasBadFlag(prs.src.line)
       /\ inc.at \in {"done", "error"}) =>
        /\ inc.at = "error"
        /\ inc.err = FGDParseError
        /\ prs.st.n = 1 => FirstParsed.keyvalues = <<>>

\* No element of the sequence is there twice.
NoRepeat(s) == \A i, j \in 1..Len(s) : i # j => s[i] # s[j]

\* The files a file includes.
Includes(file) ==
    LET toks == inc.fs[file] IN
    {include_name(toks[k + 1].v) :
       k \in {j \in 1..(Len(toks) - 1) :
                toks[j] = Token_STRING(<<"@", "include">>)}}

\* The step is a call of parse_file, from an '@include' or from outside,
\* for a file of the parsed list.
SkippingCall ==
    \/ /\ inc.at = "run"
       /\ Frame.i <= Len(inc.fs[Frame.file])
       /\ AtInclude
       /\ LET x == tok_expect(inc.fs[Frame.file], Frame.i + 1, "STRING") IN
            /\ x.ok
            /\ include_name(x.v) \in DOMAIN inc.fs
            /\ in_parse_list(inc.parse_list, include_name(x.v))
    \/ /\ inc.at \in {"ready", "done"}
       /\ inc'.calls # inc.calls
       /\ inc'.opened = inc.opened

RECURSIVE FramesLeft(_)
\* The tokens the calls in progress have still to read, and one return each.
FramesLeft(stack) ==
    IF stack = <<>> THEN 0
    ELSE (Len(inc.fs[Head(stack).file]) + 2 - Head(stack).i) + FramesLeft(Tail(stack))

\* More than any one file can add to FramesLeft.
FileWeight ==
    3 + (CHOOSE n \in 0..80 :
           /\ \A f \in DOMAIN inc.fs : Len(inc.fs[f]) <= n
           /\ \E f \in DOMAIN inc.fs : Len(inc.fs[f]) = n)

\* What is left to do: the files not yet in the parsed list, each counted
\* for more than its tokens, and the tokens left to the calls in progress.
WorkLeft(I) ==
    (Cardinality(DOMAIN I.fs) - Len(I.parse_list)) * FileWeight
    + FramesLeft(I.stack)

\* C16: on every include graph, cyclic ones among them, parse_file ends,
\* since every step of a call in progress either raises or leaves less to
\* do, and a call in progress has a step to take; no file is opened and
\* processed twice for a database; and a call for a file of the parsed
\* list raises nothing and leaves the database, the list and the files
\* opened as they were.
C16_IncludeOnce ==
    [][prs.at = "fgd" =>
         /\ NoRepeat(inc'.opened)
         /\ inc.at = "run" =>
              /\ inc'.at = "error" \/ WorkLeft(inc') < WorkLeft(inc)
              /\ WorkLeft(inc') >= 0
         /\ inc'.at = "run" => inc'.stack # <<>>
         /\ inc'.err \in {"none", FGDParseError, "KeyError", "ValueError",
                          "FileNotFoundError"}
         /\ SkippingCall =>
              /\ prs' = prs
              /\ inc'.err = "none"
              /\ inc'.at \in {"run", "done"}
              /\ inc'.parse_list = inc.parse_list
              /\ inc'.opened = inc.opened]_vars

\* Two files that include each other have both been parsed, each once, and
\* the call has ended well.
C16_Witness ==
    /\ prs.at = "fgd" /\ inc.at = "done"
    /\ FileB \in Includes(FileA) /\ FileA \in Includes(FileB)
    /\ FileA \in Includes(FileA)
    /\ \E i, j \in 1..Len(inc.opened) : inc.opened[i] = FileA /\ inc.opened[j] = FileB
    /\ HasKey(prs.st.db, <<"a">>) /\ HasKey(prs.st.db, <<"b">>)

(***************************************************************************)
(* Export and parse again: a database is written as text, and the text is  *)
(* parsed into a new database with the default arguments (bases are        *)
(* evaluated).  The text is the file 'out.fgd'; a second file includes it. *)
(***************************************************************************)
FileOut == <<"o", "u", "t", ".fgd">>
FileMain == <<"m", "a", "i", "n", ".fgd">>

\* The databases written: the bodies and base shapes of the codec runs, an
\* entity registered before or after its bases.
InitText ==
    /\ \E shape \in {"flat", "chain", "two", "shadow"} :
       \E k1 \in {"plain", "tagged", "flags", "choices"} :
       \E k2 \in {"none", "plain", "flags0"} :
       \E k3 \in {"none", "tagged"} :
       \E bases_first \in BOOLEAN :
         /\ ents = [e \in {"e1", "e2", "e3"} |->
                      LET b == CodecBody(IF e = "e1" THEN k1
                                         ELSE IF e = "e2" THEN k2 ELSE k3, e)
                      IN  [EntityDef(IF e = "e3" /\ shape = "shadow"
                                     THEN <<"b">> ELSE ClassnameOf(e),
                                     CodecBases(shape, e), b.keyvalues,
                                     b.inputs, b.outputs, b.kv_order)
                             EXCEPT !.type = TypeOf(e), !.desc = <<"d">>]]
         /\ entities = IF shape = "shadow" THEN Registered(<<"e2", "e1">>)
                       ELSE IF bases_first THEN Registered(<<"e3", "e2", "e1">>)
                       ELSE Registered(<<"e1", "e2", "e3">>)
    /\ Quiet /\ NoCall /\ NoBin /\ NoSd /\ NoVt /\ NoIb /\ NoHp
    /\ inc = [at |-> "db", fs |-> <<>>, stack |-> <<>>, parse_list |-> <<>>,
              opened |-> <<>>, err |-> "none", calls |-> 0]
    /\ prs = [at |-> "text", st |-> NewFGD, eval_bases |-> TRUE,
              src |-> [one |-> FALSE]]

\* fgd.export(file), whole, into 'out.fgd'.
Export ==
    /\ inc.at = "db"
    /\ \E text \in {fgd_export(ents, entities)} :
         inc' = [inc EXCEPT
                   !.at = IF text.err = "none" THEN "ready" ELSE "error",
                   !.err = text.err,
                   !.fs = (FileOut :> text.toks)
                          @@ (FileMain :> IncludeTokens(<< <<"o", "u", "t">> >>))]
    /\ UNCHANGED prs
    /\ UNCHANGED OtherVars

NextText == Export \/ ParseFile \/ ParseInclude \/ ParseItem \/ ParseReturn

SpecText == InitText /\ [][NextText]_vars

\* The entity of the database with this classname key.
ParsedEntity(key) == prs.st.es[Get(prs.st.db, key)]

\* The name, tag set, type and default of every keyvalue variant.
KeyvalueFacts(m) ==
    UNION {{<<m[n][1], m[n][2][t][1], m[n][2][t][2].type, m[n][2][t][2].default>> :
                t \in 1..Len(m[n][2])} : n \in 1..Len(m)}

\* The text has been parsed: the call that read it has ended, well or not.
TextParsed ==
    /\ prs.at = "text"
    /\ inc.at \in {"done", "error"}
    /\ \E k \in 1..Len(inc.opened) : inc.opened[k] = FileOut

\* C12: parsing the text that export writes for a database gives a
\* database with the same classnames and, for each entity, the same
\* keyvalue names, types and defaults, also when an entity is registered
\* before its base.
C12_TextRoundTrip ==
    /\ prs.at = "text" => inc.at # "error"
    /\ TextParsed =>
         /\ {prs.st.db[k][1] : k \in 1..Len(prs.st.db)}
              = {entities[k][1] : k \in 1..Len(entities)}
         /\ \A k \in 1..Len(entities) :
              /\ HasKey(prs.st.db, entities[k][1])
              /\ ParsedEntity(entities[k][1]).classname
                   = ents[entities[k][2]].classname
              /\ KeyvalueFacts(ParsedEntity(entities[k][1]).keyvalues)
                   = KeyvalueFacts(ents[entities[k][2]].keyvalues)

(***************************************************************************)
(* The string dictionary alone.  Its strings are told apart by the order   *)
(* in which they were registered: _dict maps the n-th new string to the    *)
(* index it was given, so the table is known by the number of its entries  *)
(* (count) and the largest index it holds (max_index); last is the index   *)
(* of the latest call.                                                     *)
(***************************************************************************)
\* BinStrDict()
NewBinStrDict ==
    [at |-> "dict", cur_index |-> 0, count |-> 0, max_index |-> -1,
     last |-> -1, err |-> "none"]

InitDict ==
    /\ ents = <<>>
    /\ entities = <<>>
    /\ Quiet /\ NoCall /\ NoBin /\ NoPrs /\ NoInc /\ NoVt /\ NoIb /\ NoHp
    /\ sd = NewBinStrDict

DictOtherVars == <<ents, entities, pc, lastop, status, calls, todo, pending,
                   done, deferred, passes, marked, snap, view, mt, bin, prs,
                   inc, vt, ib, hp>>

\* BinStrDict.__call__(string) for a string not in the table: the entry is
\* stored, then the index is tested and packed.
DictCallNew ==
    /\ sd.at = "dict"
    /\ LET n == new_index(sd.cur_index) IN
         sd' = [at |-> IF n.err = "none" THEN "dict" ELSE "error",
                cur_index |-> n.cur_index,
                count |-> sd.count + 1,
                max_index |-> IF n.index > sd.max_index THEN n.index
                              ELSE sd.max_index,
                last |-> n.index,
                err |-> n.err]
    /\ UNCHANGED DictOtherVars

\* BinStrDict.__call__(string) for a string of the table, the first or the
\* latest registered: its index is packed.
DictCallOld ==
    /\ sd.at = "dict"
    /\ sd.count > 0
    /\ \E index \in {0, sd.count - 1} :
         /\ index # sd.last
         /\ sd' = [sd EXCEPT !.last = index,
                             !.err = IF index > U16Max THEN "struct.error"
                                     ELSE "none"]
    /\ UNCHANGED DictOtherVars

NextDict == DictCallNew \/ DictCallOld

SpecDict == InitDict /\ [][NextDict]_vars

\* C17: the dictionary fails when more than 65536 distinct strings are
\* registered: the call that registers the 65537th raises the overflow
\* error (ValueError), and every index held in the table is at most 65535.
C17_DictOverflow ==
    sd.at # "none" =>
        /\ sd.count > DictLimit => sd.at = "error" /\ sd.err = "ValueError"
        /\ sd.max_index <= U16Max

(***************************************************************************)
(* validate_tags called directly, on every collection of up to MaxTags of  *)
(* these tags.                                                             *)
(***************************************************************************)
ValidatePool ==
    {tA, <<"b">>, <<"+", "B">>, <<"!", "c">>,
     ANY_TAG, <<"<", "A", "N", "Y", ">">>, <<"<", "A", "n", "y", ">">>,
     <<"+">> \o ANY_TAG, <<"!", "<", "A", "N", "Y", ">">>}

InitValidate ==
    /\ ents = <<>>
    /\ entities = <<>>
    /\ Quiet /\ NoCall /\ NoBin /\ NoPrs /\ NoInc /\ NoSd /\ NoIb /\ NoHp
    /\ \E tags \in SeqsUpTo(ValidatePool, MaxTags) :
         vt = [at |-> "call", tags |-> tags, ok |-> TRUE, error |-> "",
               result |-> {}]

\* validate_tags(tags), whole.
Validate ==
    /\ vt.at = "call"
    /\ LET r == validate_tags(vt.tags) IN
         vt' = [vt EXCEPT !.at = "returned", !.ok = r.ok, !.error = r.error,
                          !.result = r.tags]
    /\ UNCHANGED <<ents, entities, pc, lastop, status, calls, todo, pending,
                   done, deferred, passes, marked, snap, view, mt, bin, prs,
                   inc, sd, ib, hp>>

NextValidate == Validate

SpecValidate == InitValidate /\ [][NextValidate]_vars

\* The tag is the reserved wildcard, in any letter case, with or without
\* sigils.
IsAnyTag(t) == casefold(lstrip_sigils(t)) = ANY_TAG

\* C18: validate_tags raises the error for every collection in which the
\* reserved wildcard tag '<any>' is used, in any letter case and with or
\* without a sigil.
C18_RejectsAny ==
    (vt.at = "returned" /\ \E k \in 1..Len(vt.tags) : IsAnyTag(vt.tags[k])) =>
        ~vt.ok

(***************************************************************************)
(* EntityDef.iter_bases, on entities whose bases are resolved.             *)
(***************************************************************************)
RECURSIVE iter_bases(_, _, _)
RECURSIVE iter_bases_loop(_, _, _, _)
\* list(ent.iter_bases(_done)) entered depth generators deep: the entities
\* yielded in order, and RecursionError if the interpreter's limit ends the
\* walk.  _done is added to and never read, so it has no part in the
\* result.
iter_bases(es, self, depth) ==
    IF depth > RecursionLimit(es) THEN [out |-> <<>>, err |-> "RecursionError"]
    ELSE iter_bases_loop(es, es[self].bases, 1, depth)

\* "for ent in self.bases: yield ent; yield from ent.iter_bases(_done)"
iter_bases_loop(es, bases, i, depth) ==
    IF i > Len(bases) THEN [out |-> <<>>, err |-> "none"]
    ELSE LET ent == bases[i].obj
             sub == iter_bases(es, ent, depth + 1)
         IN  IF sub.err # "none"
             THEN [out |-> <<ent>> \o sub.out, err |-> sub.err]
             ELSE LET rest == iter_bases_loop(es, bases, i + 1, depth) IN
                  [out |-> <<ent>> \o sub.out \o rest.out, err |-> rest.err]

IterObjs == {"e1", "e2", "e3", "e4"}

\* Base lists of up to two different entities.
IterBaseLists ==
    {s \in SeqsUpTo(IterObjs, 2) : NoRepeat(s)}

InitIter ==
    /\ \E b1 \in IterBaseLists : \E b2 \in IterBaseLists :
       \E b3 \in IterBaseLists :
         ents = [e \in IterObjs |->
                   MakeEnt(ClassnameOf(e),
                           LET b == IF e = "e1" THEN b1 ELSE IF e = "e2" THEN b2
                                    ELSE IF e = "e3" THEN b3 ELSE <<>>
                           IN  [k \in 1..Len(b) |-> ObjBase(b[k])],
                           "none", e)]
    /\ entities = Registered(<<"e1", "e2", "e3", "e4">>)
    /\ Quiet /\ NoCall /\ NoBin /\ NoPrs /\ NoInc /\ NoSd /\ NoVt /\ NoHp
    /\ ib = [at |-> "call", ent |-> "e1", out |-> <<>>, err |-> "none"]

\* list(ent.iter_bases()), whole.
IterBases ==
    /\ ib.at = "call"
    /\ LET r == iter_bases(ents, ib.ent, 1) IN
         ib' = [ib EXCEPT !.at = "returned", !.out = r.out, !.err = r.err]
    /\ UNCHANGED <<ents, entities, pc, lastop, status, calls, todo, pending,
                   done, deferred, passes, marked, snap, view, mt, bin, prs,
                   inc, sd, vt, hp>>

NextIter == IterBases

SpecIter == InitIter /\ [][NextIter]_vars

\* C19: iter_bases yields every direct and indirect base of the entity, and
\* yields an entity reached through several inheritance paths only once.
C19_IterBasesOnce ==
    (ib.at = "returned" /\ Acyclic(ents)) =>
        /\ ib.err = "none"
        /\ Range(ib.out) = Reach(ents, ib.ent)
        /\ NoRepeat(ib.out)

RECURSIVE AppendMissing(_, _)
\* The list followed by the entries of vals that are not in it, each once.
AppendMissing(list, vals) ==
    IF vals = <<>> THEN list
    ELSE AppendMissing(IF Head(vals) \in Range(list) THEN list
                       ELSE Append(list, Head(vals)), Tail(vals))

RECURSIVE UnionOverBases(_, _, _, _, _)
\* The list after the union with the list of every base, from the i-th on,
\* that holds a list-typed record under the name and tag set.
UnionOverBases(es, bases, i, key, list) ==
    IF i > Len(bases) THEN list
    ELSE LET m == es[bases[i].obj].keyvalues IN
         IF /\ Held(m, key[1], key[2])
            /\ has_list(Rec(m, key[1], key[2]).type)
            /\ ~Rec(m, key[1], key[2]).val_list.none
         THEN UnionOverBases(es, bases, i + 1, key,
                AppendMissing(list, Rec(m, key[1], key[2]).val_list.items))
         ELSE UnionOverBases(es, bases, i + 1, key, list)

\* C20: when collapse_bases processes an entity that holds a list-typed
\* record under a name and tag set that a base holds too, list-typed, the
\* entity's value list afterwards is its own list followed by the entries
\* of the base's list that were not in it, none twice and none left out,
\* also when its own list was empty.
C20_ListUnion ==
    [][ \A e \in DOMAIN ents : Processes(e) =>
          LET mine == ents[e].keyvalues IN
          \A n \in 1..Len(mine) : \A t \in 1..Len(mine[n][2]) :
            LET name == mine[n][1]
                tag == mine[n][2][t][1]
                old == mine[n][2][t][2]
            IN  (has_list(old.type) /\ ~old.val_list.none) =>
                  /\ Held(ents'[e].keyvalues, name, tag)
                  /\ ~Rec(ents'[e].keyvalues, name, tag).val_list.none
                  /\ Rec(ents'[e].keyvalues, name, tag).val_list.items
                       = UnionOverBases(ents, ents[e].bases, 1, <<name, tag>>,
                                        old.val_list.items)
      ]_vars

(***************************************************************************)
(* Runs of collapse_bases alone, over every base graph of at most MaxEdges *)
(* resolved references among four entities, of which one, two or all four  *)
(* are registered: the others are reached only as bases.                   *)
(***************************************************************************)
PassObjs == <<"e1", "e2", "e3", "e4">>
PassEdges == {p \in Range(PassObjs) \X Range(PassObjs) : p[1] # p[2]}

\* The bases of e in the graph E, in the order of the objects.
PassBases(E, e) ==
    LET to == SelectSeq(PassObjs, LAMBDA b : <<e, b>> \in E)
    IN  [i \in 1..Len(to) |-> ObjBase(to[i])]

InitCollapse ==
    \E E \in SUBSET PassEdges :
    \E reg \in {<<"e1">>, <<"e1", "e2">>, <<"e1", "e2", "e3", "e4">>} :
        /\ Cardinality(E) <= MaxEdges
        /\ ents = [e \in Range(PassObjs) |->
                     MakeEnt(ClassnameOf(e), PassBases(E, e), "plain", e)]
        /\ entities = Registered(reg)
        /\ Quiet /\ NoCall /\ NoAux

NextCollapse == CollapseBegin \/ CollapseVisit \/ CollapsePassEnd

SpecCollapse == InitCollapse /\ [][NextCollapse]_vars

\* The entities a collapse_bases call concerns: those of the database and
\* those reachable from them as bases, as the call found them.
ScanEnts == DbEnts \cup UNION {Reach(snap, x) : x \in DbEnts}

(***************************************************************************)
(* C21.  collapse_bases terminates: the scan loop runs at most N passes    *)
(* for a database of N entities, counting those reachable only as bases,   *)
(* and every pass either marks at least one more entity done or ends the   *)
(* operation.                                                              *)
(***************************************************************************)
C21_CollapseTerminates ==
    [][ /\ lastop' = "collapse_bases" => passes' <= Cardinality(ScanEnts')
        /\ (pc = "collapse" /\ passes' = passes + 1) =>
              (marked # {} \/ pc' = "idle")
      ]_vars

(***************************************************************************)
(* The objects of a collapse.  The records (KeyValues, IODef) and the      *)
(* value lists are objects with an identity: H.recs and H.lists hold them  *)
(* by address, a record's val_list is the address of its list (0 for       *)
(* None), and the maps of an entity hold addresses of records.             *)
(***************************************************************************)
\* Mutant: the copy keeps the list of the original.
heap_kv_copy_shared(H, rid) ==
    [recs |-> Append(H.recs, H.recs[rid]), lists |-> H.lists]

\* KeyValues.copy: a new record, with a new list of the same items when
\* the list is truthy and None otherwise.  The new record is the last.
heap_kv_copy(H, rid) ==
    LET kv == H.recs[rid]
        has == kv.val_list # 0 /\ H.lists[kv.val_list] # <<>>
    IN  [recs |-> Append(H.recs, [kv EXCEPT !.val_list =
                                    IF has THEN Len(H.lists) + 1 ELSE 0]),
         lists |-> IF has THEN Append(H.lists, H.lists[kv.val_list])
                   ELSE H.lists]

\* IODef.copy: a new record.
heap_io_copy(H, rid) == [H EXCEPT !.recs = Append(@, H.recs[rid])]

RECURSIVE heap_merge_tags(_, _, _, _, _)
\* The loop over base_kv_map.items() (iskv) or base_tags_map.items(): a
\* missing tag gets a copy; for a list type the entity's own list object
\* is appended to in place.
heap_merge_tags(H, ent_map, base_map, j, iskv) ==
    IF j > Len(base_map) THEN [H |-> H, map |-> ent_map, err |-> FALSE]
    ELSE LET tag == base_map[j][1]
             rid == base_map[j][2]
             kv == H.recs[rid]
             stored(H2) ==
               heap_merge_tags(H2, Put(ent_map, tag, Len(H2.recs)), base_map,
                               j + 1, iskv)
         IN  IF ~HasKey(ent_map, tag)
             THEN stored(IF iskv THEN heap_kv_copy(H, rid)
                         ELSE heap_io_copy(H, rid))
             ELSE IF iskv /\ has_list(kv.type)
             THEN LET targ_list == H.recs[Get(ent_map, tag)].val_list IN
                  IF targ_list # 0 /\ H.lists[targ_list] # <<>>
                  THEN IF kv.val_list = 0
                       THEN [H |-> H, map |-> ent_map, err |-> TRUE]
                       ELSE heap_merge_tags(
                              [H EXCEPT !.lists[targ_list] =
                                 extend_missing(@, H.lists[kv.val_list], 1)],
                              ent_map, base_map, j + 1, iskv)
                  ELSE heap_merge_tags(H, ent_map, base_map, j + 1, iskv)
             ELSE heap_merge_tags(H, ent_map, base_map, j + 1, iskv)

RECURSIVE heap_merge_names(_, _, _, _, _, _, _)
\* The loop over the items of a base's keyvalues (iskv, with base_kv and
\* keyvalue_names), inputs or outputs.
heap_merge_names(H, ent_attr, base_attr, i, iskv, base_kv, names) ==
    IF i > Len(base_attr)
    THEN [H |-> H, attr |-> ent_attr, err |-> FALSE, base_kv |-> base_kv,
          names |-> names]
    ELSE LET name == base_attr[i][1]
             with_name == SetDefault(ent_attr, name)
             merged(r) ==
               IF r.err
               THEN [H |-> r.H, attr |-> Put(with_name, name, r.map),
                     err |-> TRUE, base_kv |-> base_kv, names |-> names]
               ELSE heap_merge_names(
                      r.H, Put(with_name, name, r.map), base_attr, i + 1, iskv,
                      IF iskv /\ name \notin names THEN Append(base_kv, name)
                      ELSE base_kv,
                      IF iskv THEN names \cup {name} ELSE names)
         IN  merged(heap_merge_tags(H, Get(with_name, name), base_attr[i][2],
                                    1, iskv))

RECURSIVE heap_merge_bases(_, _, _, _, _, _, _)
\* The loop over ent.bases of a ready entity, then kv_order and bases.
heap_merge_bases(H, es, ent, bases, b, base_kv, names) ==
    IF b > Len(bases)
    THEN [H |-> H,
          ent |-> [ent EXCEPT !.kv_order = new_kv_order(base_kv, @),
                              !.bases = cleared_bases(@)],
          err |-> FALSE]
    ELSE LET base == es[bases[b]]
             outs(k, n, o) ==
               heap_merge_bases(o.H, es,
                                [ent EXCEPT !.keyvalues = k.attr,
                                            !.inputs = n.attr,
                                            !.outputs = o.attr],
                                bases, b + 1, k.base_kv, k.names)
             ins(k, n) ==
               outs(k, n, heap_merge_names(n.H, ent.outputs, base.outputs, 1,
                                           FALSE, <<>>, {}))
             kvs(k) ==
               IF k.err
               THEN [H |-> k.H, ent |-> [ent EXCEPT !.keyvalues = k.attr],
                     err |-> TRUE]
               ELSE ins(k, heap_merge_names(k.H, ent.inputs, base.inputs, 1,
                                            FALSE, <<>>, {}))
         IN  kvs(heap_merge_names(H, ent.keyvalues, base.keyvalues, 1, TRUE,
                                  base_kv, names))

RECURSIVE heap_new_tags(_, _, _, _)
\* The objects of a tag map given by value: every record is a new object
\* with a list of its own.
heap_new_tags(H, tag_map, j, out) ==
    IF j > Len(tag_map) THEN [H |-> H, map |-> out]
    ELSE LET rec == tag_map[j][2]
             lists == IF rec.val_list.none THEN H.lists
                      ELSE Append(H.lists, rec.val_list.items)
             recs == Append(H.recs,
                            [rec EXCEPT !.val_list =
                               IF rec.val_list.none THEN 0 ELSE Len(lists)])
         IN  heap_new_tags([recs |-> recs, lists |-> lists], tag_map, j + 1,
                           Append(out, <<tag_map[j][1], Len(recs)>>))

RECURSIVE heap_new_attr(_, _, _, _)
heap_new_attr(H, attr, i, out) ==
    IF i > Len(attr) THEN [H |-> H, attr |-> out]
    ELSE LET named(r) ==
               heap_new_attr(r.H, attr, i + 1, Append(out, <<attr[i][1], r.map>>))
         IN  named(heap_new_tags(H, attr[i][2], 1, <<>>))

RECURSIVE heap_new_ents(_, _, _, _, _)
\* The objects of the entities es, made in the given order.
heap_new_ents(H, es, order, i, out) ==
    IF i > Len(order) THEN [H |-> H, ents |-> out]
    ELSE LET ent == es[order[i]]
             made(k, n, o) ==
               heap_new_ents(o.H, es, order, i + 1,
                  (order[i] :> [bases |-> [x \in 1..Len(ent.bases) |->
                                             ent.bases[x].obj],
                                keyvalues |-> k.attr, inputs |-> n.attr,
                                outputs |-> o.attr,
                                kv_order |-> ent.kv_order]) @@ out)
             ins(k, n) == made(k, n, heap_new_attr(n.H, ent.outputs, 1, <<>>))
             kvs(k) == ins(k, heap_new_attr(k.H, ent.inputs, 1, <<>>))
         IN  kvs(heap_new_attr(H, ent.keyvalues, 1, <<>>))

\* The three entities of InitBodies as objects.
InitHeap ==
    /\ InitBodies /\ Quiet /\ NoCall
    /\ NoBin /\ NoPrs /\ NoInc /\ NoSd /\ NoVt /\ NoIb
    /\ \E r \in {heap_new_ents([recs |-> <<>>, lists |-> <<>>], ents,
                               <<"e3", "e2", "e1">>, 1, <<>>)} :
         hp = [at |-> "heap", H |-> r.H, ents |-> r.ents, who |-> NoObj,
               op |-> "none", err |-> FALSE,
               merged |-> [e \in DOMAIN r.ents |-> {}]]

HeapOtherVars ==
    <<ents, entities, pc, lastop, status, calls, todo, pending, done,
      deferred, passes, marked, snap, view, mt, bin, prs, inc, sd, vt, ib>>

\* Lines 1402-1436 for an entity whose bases are all collapsed.
HeapCollapse ==
    /\ hp.at = "heap"
    /\ ~hp.err
    /\ \E e \in DOMAIN hp.ents :
         /\ hp.ents[e].bases # <<>>
         /\ \A i \in 1..Len(hp.ents[e].bases) :
              hp.ents[hp.ents[e].bases[i]].bases = <<>>
         /\ \E r \in {heap_merge_bases(hp.H, hp.ents, hp.ents[e],
                                       hp.ents[e].bases, 1, <<>>,
                                       Range(hp.ents[e].kv_order))} :
              hp' = [hp EXCEPT !.H = r.H, !.ents[e] = r.ent, !.err = r.err,
                               !.who = e, !.op = "collapse",
                               !.merged[e] = Range(hp.ents[e].bases)]
    /\ UNCHANGED HeapOtherVars

\* The address sets of an entity: its records, and their lists.
Rids(h, e) ==
    UNION {UNION {{m[n][2][t][2] : t \in 1..Len(m[n][2])} : n \in 1..Len(m)} :
             m \in {h.ents[e].keyvalues, h.ents[e].inputs, h.ents[e].outputs}}
Lids(h, e) == {h.H.recs[r].val_list : r \in Rids(h, e)} \ {0}

\* A later change of a collapsed entity: a value is appended to one of its
\* lists, once.
HeapChange ==
    /\ hp.at = "heap"
    /\ hp.op = "collapse"
    /\ \E lid \in Lids(hp, hp.who) :
         hp' = [hp EXCEPT !.H.lists[lid] = Append(@, Flag4), !.op = "change"]
    /\ UNCHANGED HeapOtherVars

NextHeap == HeapCollapse \/ HeapChange

SpecHeap == InitHeap /\ [][NextHeap]_vars

\* The records of an entity by value: every address replaced by what it
\* holds.
DerefMap(h, m) ==
    [n \in 1..Len(m) |->
       <<m[n][1],
         [t \in 1..Len(m[n][2]) |->
            <<m[n][2][t][1],
              [h.H.recs[m[n][2][t][2]] EXCEPT !.val_list =
                 IF @ = 0 THEN NoneList ELSE ListOf(h.H.lists[@])]>>]>>]
Deref(h, e) ==
    <<DerefMap(h, h.ents[e].keyvalues), DerefMap(h, h.ents[e].inputs),
      DerefMap(h, h.ents[e].outputs)>>

(***************************************************************************)
(* C22.  Collapsing a derived entity never changes its bases' records:     *)
(* the keyvalue, input and output records and the value lists of a base    *)
(* are the same before and after, no record and no value list of the       *)
(* derived entity is the same object as one of the base, and a later       *)
(* change to a list of the derived entity is not visible in the base.      *)
(***************************************************************************)
C22_BasesUntouched ==
    [][ (hp.at = "heap" /\ hp' # hp) =>
          \A b \in hp'.merged[hp'.who] :
            /\ Deref(hp', b) = Deref(hp, b)
            /\ Rids(hp', hp'.who) \cap Rids(hp', b) = {}
            /\ Lids(hp', hp'.who) \cap Lids(hp', b) = {}
      ]_vars

\* e1 took the flags of its base e2 into its own list, which was changed
\* afterwards.
C22_Witness ==
    /\ hp.at = "heap"
    /\ hp.op = "change"
    /\ hp.who = "e1"
    /\ "e2" \in hp.merged["e1"]
    /\ \E lid \in Lids(hp, "e1") : Len(hp.H.lists[lid]) = 4
    /\ \E lid \in Lids(hp, "e2") : Len(hp.H.lists[lid]) = 3

(***************************************************************************)
(* The fix-up pass of serialise on databases with shadowed bases.          *)
(***************************************************************************)
\* The classnames of the two objects that may be shadowed.
FixNames == {<<"b">>, <<"C">>, <<"b", "_", "1">>, <<"B", "2">>}

RECURSIVE FixDb(_, _, _, _)
\* FGD.entities after parsing the objects of order under the classnames
\* given: a later entity of a classname replaces the earlier one.
FixDb(names, order, i, db) ==
    IF i > Len(order) THEN db
    ELSE FixDb(names, order, i + 1, Put(db, casefold(names[order[i]]), order[i]))

InitFix ==
    /\ \E n3 \in FixNames, n4 \in FixNames :
       \E order \in {<<"e2", "e1">>, <<"e3", "e2", "e1">>, <<"e4", "e2", "e1">>,
                     <<"e3", "e4", "e2", "e1">>, <<"e2", "e1", "e4", "e3">>} :
       \E b1 \in {<<"e3">>, <<"e3", "e4">>, <<"e4", "e3">>} :
       \E b3 \in {<<>>, <<"e4">>} :
       \E k1 \in {"none", "plain", "tagged"} :
         LET names == [e \in {"e1", "e2", "e3", "e4"} |->
                         CASE e = "e3" -> n3 [] e = "e4" -> n4
                           [] OTHER -> ClassnameOf(e)]
             bases == [e \in {"e1", "e2", "e3", "e4"} |->
                         CASE e = "e1" -> b1 [] e = "e3" -> b3
                           [] OTHER -> <<>>]
         IN  /\ ents = [e \in {"e1", "e2", "e3", "e4"} |->
                          LET b == CodecBody(IF e = "e1" THEN k1 ELSE "none", e)
                          IN  [EntityDef(names[e],
                                         [i \in 1..Len(bases[e]) |->
                                            ObjBase(bases[e][i])],
                                         b.keyvalues, b.inputs, b.outputs,
                                         b.kv_order)
                                 EXCEPT !.type = TypeOf(e), !.desc = <<"d">>]]
             /\ entities = FixDb(names, order, 1, <<>>)
    /\ Quiet /\ NoCall /\ NoPrs /\ NoInc /\ NoSd /\ NoVt /\ NoIb /\ NoHp
    /\ bin = [at |-> "db", err |-> "none", file |-> <<>>, es |-> <<>>,
              db |-> <<>>]

SpecFix == InitFix /\ [][NextCodec]_vars

\* serialise has just run.
Serialised == bin.at = "db" /\ bin'.at # "db"

(***************************************************************************)
(* C23.  The fix-up pass of serialise renames a shadowed base only to a    *)
(* classname that is not a key of the database: every classname that is a  *)
(* key before the pass looks up the same entity object after it, so no     *)
(* entity is removed from or replaced in the database.                     *)
(***************************************************************************)
C23_FixKeepsLookups ==
    [][ Serialised =>
          \A i \in 1..Len(entities) :
            /\ fgd_getitem(entities', entities[i][1]).found
            /\ fgd_getitem(entities', entities[i][1]).obj = entities[i][2]
      ]_vars

(***************************************************************************)
(* C24.  After the fix-up pass every base referenced by an entity of the   *)
(* database is addressable: the database entry under the base's classname  *)
(* is the base itself.                                                     *)
(***************************************************************************)
C24_BasesAddressable ==
    [][ (Serialised /\ bin'.err = "none") =>
          \A i \in 1..Len(entities') :
            \A j \in 1..Len(ents'[entities'[i][2]].bases) :
              LET b == ents'[entities'[i][2]].bases[j].obj
              IN  /\ fgd_getitem(entities', ents'[b].classname).found
                  /\ fgd_getitem(entities', ents'[b].classname).obj = b
      ]_vars

(***************************************************************************)
(* The string dictionary with its strings, and the dictionary block in     *)
(* bytes.  A string is here the sequence of its code points, so that the   *)
(* UTF-8 encoding is computed: 97 is 'a', 98 'b', 233 'e' with an acute    *)
(* accent (two bytes), 8364 the euro sign (three bytes).                   *)
(***************************************************************************)
StrPool == {<<>>, <<97>>, <<97, 98>>, <<233>>, <<98, 8364>>}

\* BinStrDict.__call__(string) on the table d (_dict and cur_index): the
\* table after the call, the index packed, and how the call ends.
str_dict_call(d, string) ==
    IF HasKey(d.dict, string)
    THEN [dict |-> d.dict, cur_index |-> d.cur_index,
          index |-> Get(d.dict, string),
          err |-> IF Get(d.dict, string) > U16Max THEN "struct.error"
                  ELSE "none"]
    ELSE LET stored(n) ==
               [dict |-> Put(d.dict, string, n.index),
                cur_index |-> n.cur_index, index |-> n.index, err |-> n.err]
         IN  stored(new_index(d.cur_index))

\* _fmt_16bit.pack(n), _fmt_32bit.pack(n): big-endian bytes.
pack16(n) == <<n \div 256, n % 256>>
pack32(n) == <<n \div 16777216, (n \div 65536) % 256, (n \div 256) % 256,
               n % 256>>
\* fmt.unpack(file.read(fmt.size)) at position p; short data is struct.error.
unpack16(bytes, p) ==
    IF p + 1 > Len(bytes) THEN [ok |-> FALSE, n |-> 0]
    ELSE [ok |-> TRUE, n |-> (256 * bytes[p]) + bytes[p + 1]]
unpack32(bytes, p) ==
    IF p + 3 > Len(bytes) THEN [ok |-> FALSE, n |-> 0]
    ELSE [ok |-> TRUE,
          n |-> (16777216 * bytes[p]) + (65536 * bytes[p + 1])
                  + (256 * bytes[p + 2]) + bytes[p + 3]]

\* The UTF-8 bytes of one code point.
utf8_char(cp) ==
    IF cp < 128 THEN <<cp>>
    ELSE IF cp < 2048 THEN <<192 + (cp \div 64), 128 + (cp % 64)>>
    ELSE IF cp < 65536
    THEN <<224 + (cp \div 4096), 128 + ((cp \div 64) % 64), 128 + (cp % 64)>>
    ELSE <<240 + (cp \div 262144), 128 + ((cp \div 4096) % 64),
           128 + ((cp \div 64) % 64), 128 + (cp % 64)>>

RECURSIVE utf8_encode(_)
\* txt.encode('utf8')
utf8_encode(txt) ==
    IF txt = <<>> THEN <<>>
    ELSE utf8_char(txt[1]) \o utf8_encode(SubSeq(txt, 2, Len(txt)))

\* A continuation byte at position i.
is_cont(bytes, i) == i <= Len(bytes) /\ bytes[i] >= 128 /\ bytes[i] < 192

RECURSIVE utf8_decode(_, _, _)
\* bytes.decode('utf8') from position i on: the string, or
\* UnicodeDecodeError for a sequence that is cut short or not valid.
utf8_decode(bytes, i, out) ==
    IF i > Len(bytes) THEN [ok |-> TRUE, s |-> out]
    ELSE LET b == bytes[i] IN
         IF b < 128 THEN utf8_decode(bytes, i + 1, Append(out, b))
         ELSE IF b >= 194 /\ b < 224 /\ is_cont(bytes, i + 1)
         THEN utf8_decode(bytes, i + 2,
                          Append(out, ((b - 192) * 64) + (bytes[i + 1] - 128)))
         ELSE IF /\ b >= 224 /\ b < 240
                 /\ is_cont(bytes, i + 1) /\ is_cont(bytes, i + 2)
                 /\ (b = 224 => bytes[i + 1] >= 160)
                 /\ (b = 237 => bytes[i + 1] < 160)
         THEN utf8_decode(bytes, i + 3,
                          Append(out, ((b - 224) * 4096)
                                        + ((bytes[i + 1] - 128) * 64)
                                        + (bytes[i + 2] - 128)))
         ELSE IF /\ b >= 240 /\ b < 245
                 /\ is_cont(bytes, i + 1) /\ is_cont(bytes, i + 2)
                 /\ is_cont(bytes, i + 3)
                 /\ (b = 240 => bytes[i + 1] >= 144)
                 /\ (b = 244 => bytes[i + 1] < 144)
         THEN utf8_decode(bytes, i + 4,
                          Append(out, ((b - 240) * 262144)
                                        + ((bytes[i + 1] - 128) * 4096)
                                        + ((bytes[i + 2] - 128) * 64)
                                        + (bytes[i + 3] - 128)))
         ELSE [ok |-> FALSE, s |-> out]

\* "inv_list[ind] = txt" for the items of _dict, on a list of len(_dict)
\* empty strings.
inv_list_of(dict) ==
    [i \in 1..Len(dict) |->
       IF \E k \in 1..Len(dict) : dict[k][2] = i - 1
       THEN dict[CHOOSE k \in 1..Len(dict) :
                   /\ dict[k][2] = i - 1
                   /\ \A m \in (k + 1)..Len(dict) : dict[m][2] # i - 1][1]
       ELSE <<>>]

\* What serialise writes for one string: the length, then the bytes.
dict_entry(txt) == [prefix |-> Len(txt), bytes |-> utf8_encode(txt)]

RECURSIVE write_entries(_, _)
write_entries(inv_list, i) ==
    IF i > Len(inv_list) THEN <<>>
    ELSE pack16(dict_entry(inv_list[i]).prefix)
           \o dict_entry(inv_list[i]).bytes \o write_entries(inv_list, i + 1)

\* BinStrDict.serialise(file): the bytes written, or the exception raised.
block_serialise(dict) ==
    IF \E k \in 1..Len(dict) : dict[k][2] >= Len(dict)
    THEN [err |-> "IndexError", bytes |-> <<>>]
    ELSE [err |-> "none",
          bytes |-> pack32(Len(dict)) \o write_entries(inv_list_of(dict), 1)]

RECURSIVE read_entries(_, _, _, _)
\* The loop of BinStrDict.unserialise from position p: file.read(str_len)
\* gives the bytes there are, at most str_len.
read_entries(bytes, p, left, inv) ==
    IF left = 0 THEN [err |-> "none", inv |-> inv, pos |-> p]
    ELSE LET decoded(q, r) ==
               IF ~r.ok
               THEN [err |-> "UnicodeDecodeError", inv |-> inv, pos |-> q]
               ELSE read_entries(bytes, q, left - 1, Append(inv, r.s))
             chunk(n) ==
               LET last == IF p + 1 + n > Len(bytes) THEN Len(bytes)
                           ELSE p + 1 + n
               IN  decoded(last + 1,
                           utf8_decode(SubSeq(bytes, p + 2, last), 1, <<>>))
             sized(u) ==
               IF ~u.ok THEN [err |-> "struct.error", inv |-> inv, pos |-> p]
               ELSE chunk(u.n)
         IN  sized(unpack16(bytes, p))

\* BinStrDict.unserialise(file): inv_list, or the exception raised.
block_unserialise(bytes) ==
    LET counted(u) ==
          IF ~u.ok THEN [err |-> "struct.error", inv |-> <<>>, pos |-> 1]
          ELSE read_entries(bytes, 5, u.n, <<>>)
    IN  counted(unpack32(bytes, 1))

\* A dictionary with no string registered, no index written, no block.
InitStr ==
    /\ ents = <<>>
    /\ entities = <<>>
    /\ Quiet /\ NoCall /\ NoBin /\ NoPrs /\ NoInc /\ NoVt /\ NoIb /\ NoHp
    /\ sd = [at |-> "table", dict |-> <<>>, cur_index |-> 0, refs |-> <<>>,
             err |-> "none", block |-> <<>>, inv |-> <<>>]

\* file.write(str_dict(string)): the index of the string is written.
StrCall ==
    /\ sd.at = "table"
    /\ Len(sd.refs) < MaxCalls
    /\ \E string \in StrPool :
       \E r \in {str_dict_call(sd, string)} :
         sd' = [sd EXCEPT !.dict = r.dict, !.cur_index = r.cur_index,
                          !.err = r.err,
                          !.at = IF r.err = "none" THEN "table" ELSE "error",
                          !.refs = IF r.err = "none"
                                   THEN Append(@, <<string, r.index>>) ELSE @]
    /\ UNCHANGED DictOtherVars

\* dictionary.serialise(file)
StrSerialise ==
    /\ sd.at = "table"
    /\ \E r \in {block_serialise(sd.dict)} :
         sd' = [sd EXCEPT !.at = IF r.err = "none" THEN "file" ELSE "error",
                          !.err = r.err, !.block = r.bytes]
    /\ UNCHANGED DictOtherVars

\* BinStrDict.unserialise(file)
StrUnserialise ==
    /\ sd.at = "file"
    /\ \E r \in {block_unserialise(sd.block)} :
         sd' = [sd EXCEPT !.at = "read", !.err = r.err, !.inv = r.inv]
    /\ UNCHANGED DictOtherVars

NextStr == StrCall \/ StrSerialise \/ StrUnserialise

SpecStr == InitStr /\ [][NextStr]_vars

RECURSIVE FirstSeen(_, _, _)
\* The strings of the calls made, each once, in the order of its first call.
FirstSeen(refs, i, out) ==
    IF i > Len(refs) THEN out
    ELSE FirstSeen(refs, i + 1,
                   IF \E k \in 1..Len(out) : out[k] = refs[i][1] THEN out
                   ELSE Append(out, refs[i][1]))

(***************************************************************************)
(* C25.  After any sequence of registrations the indices are 0, 1, 2, ...  *)
(* in first-seen order without gaps; registering a string that is present  *)
(* gives its index again and adds nothing; two strings never share an      *)
(* index; and every index written is smaller than the count of the block   *)
(* written.                                                                *)
(***************************************************************************)
C25_DictIndices ==
    [][ (sd.at = "table" /\ sd' # sd) =>
          /\ LET seen == FirstSeen(sd'.refs, 1, <<>>) IN
               /\ Len(sd'.dict) = Len(seen)
               /\ \A i \in 1..Len(seen) :
                    HasKey(sd'.dict, seen[i]) /\ Get(sd'.dict, seen[i]) = i - 1
          /\ \A i, k \in 1..Len(sd'.dict) :
               sd'.dict[i][2] = sd'.dict[k][2] => i = k
          /\ (sd'.at = "table" /\ Len(sd'.refs) > Len(sd.refs)
                /\ HasKey(sd.dict, sd'.refs[Len(sd'.refs)][1])) =>
               /\ sd'.dict = sd.dict
               /\ sd'.refs[Len(sd'.refs)][2]
                    = Get(sd.dict, sd'.refs[Len(sd'.refs)][1])
          /\ sd'.at = "file" =>
               \A i \in 1..Len(sd'.refs) :
                 sd'.refs[i][2] < unpack32(sd'.block, 1).n
      ]_vars

\* Three calls with two strings, the first string again last, and the block
\* written.
C25_Witness ==
    /\ sd.at = "file"
    /\ Len(sd.refs) = 3
    /\ sd.refs[1][1] # sd.refs[2][1]
    /\ sd.refs[3][1] = sd.refs[1][1]
    /\ unpack32(sd.block, 1).n = 2

(***************************************************************************)
(* C26.  The dictionary block round-trips every string: the length prefix  *)
(* written for an entry is the number of bytes written for it, also for a  *)
(* string whose UTF-8 encoding has more bytes than the string has          *)
(* characters, and unserialise rebuilds a table in which each index maps   *)
(* to the string registered under it.                                      *)
(***************************************************************************)
C26_BlockRoundTrip ==
    /\ sd.at \in {"file", "read"} =>
         \A i \in 1..Len(sd.dict) :
           dict_entry(sd.dict[i][1]).prefix = Len(dict_entry(sd.dict[i][1]).bytes)
    /\ sd.at = "read" =>
         /\ sd.err = "none"
         /\ Len(sd.inv) = Len(sd.dict)
         /\ \A i \in 1..Len(sd.dict) :
              sd.inv[sd.dict[i][2] + 1] = sd.dict[i][1]

(***************************************************************************)
(* The codec on spawnflags lists: one entity with one spawnflags keyvalue  *)
(* of two entries, as EntityDef.parse builds them (value, name, default,   *)
(* tags) or as KeyValues.unserialise builds them (value, name, default).   *)
(***************************************************************************)
\* The bit positions of the flags.
FlagPowers == {0, 1, 7, 23, 30}

FlagItem(shape, p, d, name) ==
    IF shape = "parsed" THEN SpawnFlag(2^p, name, d, {})
    ELSE [val |-> 2^p, name |-> name, default |-> d]

InitFlags ==
    /\ \E shape \in {"parsed", "read"} :
       \E p1 \in FlagPowers, p2 \in FlagPowers :
       \E d1 \in BOOLEAN, d2 \in BOOLEAN :
         ents = [e \in {"e1"} |->
                   [EntityDef(ClassnameOf(e), <<>>,
                              << <<kK, << <<{}, ParsedKV(kK, "flags", kK, <<>>,
                                   <<>>,
                                   ListOf(<<FlagItem(shape, p1, d1, <<"O">>),
                                            FlagItem(shape, p2, d2, <<"T">>)>>),
                                   FALSE)>> >> >> >>,
                              <<>>, <<>>, <<kK>>)
                      EXCEPT !.desc = <<"d">>]]
    /\ entities = Registered(<<"e1">>)
    /\ Quiet /\ NoCall /\ NoPrs /\ NoInc /\ NoSd /\ NoVt /\ NoIb /\ NoHp
    /\ bin = [at |-> "db", err |-> "none", file |-> <<>>, es |-> <<>>,
              db |-> <<>>]

SpecFlags == InitFlags /\ [][NextCodec]_vars

\* The spawnflags list of the entity e of es.
FlagItems(es, e) == Get(Get(es[e].keyvalues, kK), {}).val_list.items

\* The bit position of a flag value.
PowerOf(val) == CHOOSE p \in FlagPowers : 2^p = val

(***************************************************************************)
(* C27.  A spawnflag entry with bit value 2^p and default flag d is        *)
(* written as the single byte p + 128*d, and reading that byte gives back  *)
(* the bit value 2^p and the default d; the entries (1, on) and (2, off)   *)
(* are written as 128 and 1.                                               *)
(***************************************************************************)
C27_SpawnflagByte ==
    [][ /\ Serialised =>
             /\ bin'.err = "none"
             /\ \A i \in 1..Len(FlagItems(ents, "e1")) :
                  bin'.file.data[Len(bin'.file.data)
                                   - 2 * Len(FlagItems(ents, "e1")) + 2 * i - 1]
                    = PowerOf(FlagItems(ents, "e1")[i].val)
                        + (IF FlagItems(ents, "e1")[i].default THEN 128 ELSE 0)
        /\ (bin.at = "file" /\ bin'.at # "file") =>
             /\ bin'.err = "none"
             /\ \A i \in 1..Len(FlagItems(ents, "e1")) :
                  LET r == FlagItems(bin'.es, Get(bin'.db, <<"a">>))[i] IN
                    /\ r.val = FlagItems(ents, "e1")[i].val
                    /\ r.default = FlagItems(ents, "e1")[i].default
      ]_vars

\* Every key of the keyvalues, inputs and outputs maps of the entities of
\* the database db is the case-folded name of each record under it.
KeysFolded(es, db) ==
    \A i \in 1..Len(db) :
      \A attr \in {"keyvalues", "inputs", "outputs"} :
        LET m == attr_map(es[db[i][2]], attr) IN
          \A n \in 1..Len(m) :
            \A t \in 1..Len(m[n][2]) :
              m[n][1] = casefold(m[n][2][t][2].name)

(***************************************************************************)
(* C28.  In every database state, the parsed one and the one unserialise   *)
(* loads, every key of an entity's keyvalues, inputs and outputs map is    *)
(* the case-folded name of the records stored under it, also when record   *)
(* names contain upper-case letters.                                       *)
(***************************************************************************)
C28_KeysCasefolded ==
    /\ KeysFolded(ents, entities)
    /\ bin.at = "loaded" => KeysFolded(bin.es, bin.db)

(***************************************************************************)
(* Lookups through the view before and after collapse_bases.               *)
(***************************************************************************)
RECURSIVE view_maps(_, _, _, _)
\* _EntityView._maps(ent): the entity's own map, then the maps of each of
\* its bases in turn.
view_maps(es, e, attr, depth) ==
    IF depth > RecursionLimit(es) THEN <<>>
    ELSE LET RECURSIVE of_bases(_)
             of_bases(i) ==
               IF i > Len(es[e].bases) THEN <<>>
               ELSE view_maps(es, es[e].bases[i].obj, attr, depth + 1)
                      \o of_bases(i + 1)
         IN  <<attr_map(es[e], attr)>> \o of_bases(1)

\* _EntityView.__iter__: the names the view yields, each once.
view_iter(es, e, attr) ==
    LET maps == view_maps(es, e, attr, 1)
    IN  UNION {Range(Keys(maps[i])) : i \in 1..Len(maps)}

\* The bodies of the view lookups, and two whose only variant carries one
\* tag: a negative tag, a tag without letters.
LazyBody(kind, who) ==
    CASE kind = "neg" ->
           [keyvalues |-> << <<kA, << <<{<<"!", "A">>}, KV(kA, "string", who, "!A", NoneList)>> >> >> >>,
            inputs |-> <<>>,
            outputs |-> <<>>,
            kv_order |-> <<kA>>]
      [] kind = "digit" ->
           [keyvalues |-> << <<kA, << <<{<<"1">>}, KV(kA, "string", who, "1", NoneList)>> >> >> >>,
            inputs |-> << <<kA, << <<{<<"1">>}, IODef(kA, "void", who)>> >> >> >>,
            outputs |-> <<>>,
            kv_order |-> <<kA>>]
      [] OTHER -> ViewBody(kind, who)

\* The query tag sets.
LazyTags == LookupTags \cup {{<<"1">>}}

\* Resolved acyclic bases over bodies with tagged variants.
InitLazy ==
    /\ \E shape \in {"two", "owt", "chain", "flat"} :
       \E k1 \in {"none", "untagged", "tagA", "mixed"} :
       \E k2 \in {"untagged", "tagA", "mixed", "sigil", "neg", "digit"} :
       \E k3 \in {"none", "untagged", "mixed"} :
         ents = [e \in {"e1", "e2", "e3"} |->
                   LET b == LazyBody(IF e = "e1" THEN k1
                                     ELSE IF e = "e2" THEN k2 ELSE k3, e)
                   IN  EntityDef(ClassnameOf(e),
                          CASE e = "e1" /\ shape = "two" -> <<ObjBase("e2"), ObjBase("e3")>>
                            [] e = "e1" /\ shape = "owt" -> <<ObjBase("e3"), ObjBase("e2")>>
                            [] e = "e1" /\ shape = "chain" -> <<ObjBase("e2")>>
                            [] e = "e2" /\ shape = "chain" -> <<ObjBase("e3")>>
                            [] OTHER -> <<>>,
                          b.keyvalues, b.inputs, b.outputs, b.kv_order)]
    /\ entities = Registered(<<"e3", "e2", "e1">>)
    /\ Quiet /\ NoCall /\ NoAux

SpecLazy == InitLazy /\ [][NextCollapse]_vars

(***************************************************************************)
(* C29.  Lazy and eager inheritance agree: for a database with resolved    *)
(* acyclic bases, every entity, attribute kind, name and query tag set,    *)
(* the view returns after collapse_bases a record equal to the one it      *)
(* returned before, a miss before is a miss after, and the names the view  *)
(* iterates are the same.                                                  *)
(***************************************************************************)
C29_LazyEagerAgree ==
    (pc = "idle" /\ lastop = "collapse_bases" /\ status = "ok") =>
        \A e \in DOMAIN ents :
        \A attr \in {"keyvalues", "inputs", "outputs"} :
          /\ view_iter(ents, e, attr) = view_iter(snap, e, attr)
          /\ \A name \in LookupNames :
             \A bare \in BOOLEAN :
             \A tags \in IF bare THEN {{}} ELSE LazyTags :
               view_getitem(ents, e, attr, name, bare, tags)
                 = view_getitem(snap, e, attr, name, bare, tags)

\* The keyvalue names the entity e took from its i-th base when the call
\* collapsed it: those in the base's order that e did not list before and
\* that no earlier base of e holds.
TookFrom(e, i) ==
    LET b == snap[e].bases[i].obj IN
        {n \in Range(ents[b].kv_order) \cap Range(ents[e].kv_order) :
            /\ n \notin Range(snap[e].kv_order)
            /\ \A j \in 1..(i - 1) :
                 ~HasKey(ents[snap[e].bases[j].obj].keyvalues, n)}

(***************************************************************************)
(* C30.  After collapse_bases, for an entity E with a base B, the keyvalue *)
(* names that E took from B are in E.kv_order in the same relative order   *)
(* as in B.kv_order after B's own collapse, over chains of two and of      *)
(* three levels.                                                           *)
(***************************************************************************)
C30_InheritedOrder ==
    (pc = "idle" /\ lastop = "collapse_bases" /\ status = "ok") =>
        \A e \in DOMAIN ents :
        \A i \in 1..Len(snap[e].bases) :
          ~snap[e].bases[i].str =>
            \A n, m \in TookFrom(e, i) :
              FirstIndex(ents[snap[e].bases[i].obj].kv_order, n)
                  < FirstIndex(ents[snap[e].bases[i].obj].kv_order, m)
                => FirstIndex(ents[e].kv_order, n)
                     < FirstIndex(ents[e].kv_order, m)

====
